---- MODULE Spec2Model ----
(***************************************************************************)
(* The ASTEP photometric calibration pipeline (src/src/photocal.py, main)  *)
(* with the reduction routines of src/src/calibration.py it calls.         *)
(*                                                                         *)
(* A night is a date directory holding a science directory, a flat         *)
(* directory and an output (calibration) directory.  The raw files of a    *)
(* night never change; main reads them, resolves which corrections are     *)
(* possible, builds or loads the master frames and calibrates the science  *)
(* frames one at a time.  The process can be killed between two steps and  *)
(* main can be invoked again on what the earlier invocation left on disk.  *)
(*                                                                         *)
(* A raw file is described by the EXPTIME of its header.  A master frame   *)
(* is described by the directory whose raw frames it was combined from     *)
(* ("sci" or "flat"); "None" stands for Python's None and for a file that  *)
(* does not exist.  Science frames carry the instrument's file names       *)
(* (<stamp>_SCIENCE.fits, as in test_calibration.py:68), so the calibrated *)
(* file of a frame is <stamp>_SCIENCE_CAL.fits.                            *)
(***************************************************************************)
EXTENDS Integers, Sequences, FiniteSets, TLC

\* ---------------------------------------------------------------- bounds
NumNights == 2
MaxSci == 2
MaxDarks == 2
MaxFlats == 1

\* EXPTIME values of the raw frames (the two values of the test suite)
ExpTimes == {10, 90}

\* flat_files[:5]: how many flat headers main samples
FlatSample == 5

Dates == 1..NumNights

None == "None"

\* ------------------------------------------------------------ raw inputs
SeqsUpTo(S, n) == UNION {[1..k -> S] : k \in 0..n}

IsSorted(s) == \A i \in 1..(Len(s) - 1) : s[i] <= s[i + 1]

\* The files a glob returns, by their EXPTIME.  The order of a glob is not
\* specified and main depends on it only for the flats (flat_files[:5]), so
\* the other lists are taken in one order.
FileLists(n) == {s \in SeqsUpTo(ExpTimes, n) : IsSorted(s)}

\* What one date directory holds: whether the science and the flat directory
\* exist, and the EXPTIMEs of the *_SCIENCE*, *_DARK*, *_SKYFLAT* files and
\* whether there are *_BIAS* files.  A directory that does not exist holds
\* nothing.  unreadable is the place, in the list of science files, of a file
\* that cannot be read, and 0 where every file can be read.
NightCfgs ==
    {c \in [sciDir : BOOLEAN, flatDir : BOOLEAN,
            science : FileLists(MaxSci), unreadable : {0},
            sciDark : FileLists(MaxDarks), sciBias : BOOLEAN,
            skyflat : SeqsUpTo(ExpTimes, MaxFlats),
            flatDark : FileLists(MaxDarks), flatBias : BOOLEAN] :
        /\ ~c.sciDir => c.science = <<>> /\ c.sciDark = <<>> /\ ~c.sciBias
        /\ ~c.flatDir => c.skyflat = <<>> /\ c.flatDark = <<>> /\ ~c.flatBias}

\* The same directories where one of the science files, or none, is corrupt.
UnreadableNightCfgs ==
    UNION {{[c EXCEPT !.unreadable = k] : k \in 0..Len(c.science)} : c \in NightCfgs}

\* what stands for the EXPTIME of a file whose header cannot be read
Unreadable == -1

\* The other nights of the data directory: a single science frame with a
\* matching dark and no flat directory.
PlainNights ==
    {c \in NightCfgs :
        /\ ~c.flatDir /\ ~c.sciBias
        /\ c.science = <<90>> /\ c.sciDark = <<90>>}

\* glob: the raw files of one category in directory dir
Glob(dir, exps) == [i \in 1..Len(exps) |-> [dir |-> dir, k |-> i, exp |-> exps[i]]]

BiasGlob(dir, has) == IF has THEN <<[dir |-> dir, k |-> 1, exp |-> 0]>> ELSE <<>>

Take(s, n) == SubSeq(s, 1, IF Len(s) < n THEN Len(s) ELSE n)

\* the set of EXPTIMEs read from the headers of a file list
\* (photocal.py:177-185, 197-206): a file whose header cannot be read is
\* passed over with a warning
ExposureTimes(files) ==
    {files[i].exp : i \in {j \in 1..Len(files) : files[j].exp # Unreadable}}

\* ------------------------------------------------------------- the disk
\* A master frame: its ACQTYPE, the directory whose darks (for a master flat
\* and a mask: whose master dark) it was made from, and its EXPTIME.
NoFrame == [acqtype |-> None, from |-> None, exptime |-> 0]

Frame(acq, from, exp) == [acqtype |-> acq, from |-> from, exptime |-> exp]

NoOutput == [written |-> FALSE, bias |-> NoFrame, dark |-> NoFrame,
             flat |-> NoFrame, mask |-> NoFrame]

\* cal: the output directory exists; MASTERBIAS .. MASK: the cached master
\* files of the output directory; out: the calibrated science files; the
\* others: the master files the routines of calibration.py leave in the
\* science and the flat directory.
EmptyDisk ==
    [cal |-> FALSE,
     MASTERBIAS |-> NoFrame, MASTERDARK |-> NoFrame, MASTERDARK_FLAT |-> NoFrame,
     MASTERFLAT |-> NoFrame, MASK |-> NoFrame,
     out |-> [i \in 1..MaxSci |-> NoOutput],
     sciMASTERBIAS |-> NoFrame, sciMASTERDARK |-> NoFrame,
     flatMASTERBIAS |-> NoFrame, flatMASTERDARK |-> NoFrame,
     flatMASTERFLAT |-> NoFrame, flatMASK |-> NoFrame]

Exists(file) == file # NoFrame

\* ------------------------------------------------------------ the state
VARIABLES
    night,      \* night[d]: the raw files of date d
    disk,       \* disk[d]: the master and calibrated files of date d
    pc,         \* where main is: "idle" when no invocation runs
    force,      \* args.force of the running invocation
    dates,      \* the dates of the running invocation
    di,         \* the position of the loop over dates
    loc,        \* the local variables of the night being processed
    status,     \* status[d]: what this invocation did with date d
    touched,    \* touched[d]: the output files this invocation wrote for date d
    calls,      \* the combinations this invocation made for the current night
    exit,       \* how the last invocation ended
    previous,   \* how the invocation before the running one ended
    ccd         \* the frames a routine of calibration.py is working on

pipeline == <<night, disk, pc, force, dates, di, loc, status, touched, calls, exit, previous>>

vars == <<pipeline, ccd>>

NoLocals ==
    [skip_flat_correction |-> FALSE,
     skip_science_dark_correction |-> FALSE,
     shared_dark_files |-> FALSE,
     science_dark_files |-> <<>>,
     flat_dark_files |-> <<>>,
     use_bias_correction |-> FALSE,
     bias_files_for_science |-> <<>>,
     bias_dir_for_science |-> None,
     science_master_bias |-> NoFrame,
     flat_master_dark |-> NoFrame,
     science_master_dark |-> NoFrame,
     flat_master |-> NoFrame,
     mask |-> NoFrame,
     idx |-> 0]

\* the master files and the calibrated frames written for one date
NoneTouched == [masters |-> {}, out |-> {}]

NoCalls == [combine_bias |-> 0, combine_darks |-> 0, generate_flat |-> 0, generate_mask |-> 0]

\* no routine of calibration.py is being followed step by step
NoCall == [routine |-> None]

\* One night of the data directory is arbitrary, the others are plain.
Init ==
    /\ \E rich \in Dates, c \in NightCfgs, p \in [Dates -> PlainNights] :
         night = [p EXCEPT ![rich] = c]
    /\ disk = [d \in Dates |-> EmptyDisk]
    /\ pc = "idle"
    /\ force = FALSE
    /\ dates = <<>>
    /\ di = 0
    /\ loc = NoLocals
    /\ status = [d \in Dates |-> "none"]
    /\ touched = [d \in Dates |-> NoneTouched]
    /\ calls = NoCalls
    /\ exit = "none"
    /\ previous = "none"
    /\ ccd = NoCall

\* ------------------------------------------------- the resolution of a night
\* photocal.py:158-168, the globs of the two directories
ScienceFiles(n) ==
    [i \in 1..Len(n.science) |->
        [dir |-> "sci", k |-> i,
         exp |-> IF i = n.unreadable THEN Unreadable ELSE n.science[i]]]
ScienceDarkFiles(n) == Glob("sci", n.sciDark)
ScienceBiasFiles(n) == BiasGlob("sci", n.sciBias)
FlatDarkFiles(n) == IF ~n.flatDir THEN <<>> ELSE Glob("flat", n.flatDark)
FlatBiasFiles(n) == IF ~n.flatDir THEN <<>> ELSE BiasGlob("flat", n.flatBias)
\* photocal.py:254; only *_SKYFLAT* files are modelled, the files generate_flat reads
FlatFiles(n) == Glob("flat", n.skyflat)

\* ScienceDarkPlan with the flat darks required to cover every science exposure
\* time (subset in place of intersection)
ScienceDarkPlanSubset(n) ==
    LET science_exposure_times == ExposureTimes(ScienceFiles(n))
        flat_dark_exposure_times == ExposureTimes(FlatDarkFiles(n))
        substitute == /\ ScienceDarkFiles(n) = <<>> /\ FlatDarkFiles(n) # <<>>
                      /\ science_exposure_times \subseteq flat_dark_exposure_times
    IN  [science_dark_files |-> IF substitute THEN FlatDarkFiles(n) ELSE ScienceDarkFiles(n),
         shared_dark_files |-> substitute,
         skip_science_dark_correction |-> ~substitute /\ ScienceDarkFiles(n) = <<>>]

\* ScienceDarkPlan with the flat darks substituted whatever their exposure times
ScienceDarkPlanUnchecked(n) ==
    LET substitute == ScienceDarkFiles(n) = <<>> /\ FlatDarkFiles(n) # <<>>
    IN  [science_dark_files |-> IF substitute THEN FlatDarkFiles(n) ELSE ScienceDarkFiles(n),
         shared_dark_files |-> substitute,
         skip_science_dark_correction |-> ~substitute /\ ScienceDarkFiles(n) = <<>>]

\* ScienceDarkPlan looking for darks in the flat directory only
ScienceDarkPlanFlatOnly(n) ==
    LET science_exposure_times == ExposureTimes(ScienceFiles(n))
        flat_dark_exposure_times == ExposureTimes(FlatDarkFiles(n))
        substitute == /\ FlatDarkFiles(n) # <<>>
                      /\ science_exposure_times \cap flat_dark_exposure_times # {}
    IN  [science_dark_files |-> IF substitute THEN FlatDarkFiles(n) ELSE <<>>,
         shared_dark_files |-> substitute,
         skip_science_dark_correction |-> ~substitute]

\* photocal.py:187-223, the fallback for the science darks
ScienceDarkPlan(n) ==
    LET science_exposure_times == ExposureTimes(ScienceFiles(n))
        flat_dark_exposure_times == ExposureTimes(FlatDarkFiles(n))
    IN  IF ScienceDarkFiles(n) = <<>> /\ FlatDarkFiles(n) # <<>>
        THEN IF science_exposure_times \cap flat_dark_exposure_times # {}
             THEN [science_dark_files |-> FlatDarkFiles(n),
                   shared_dark_files |-> TRUE,
                   skip_science_dark_correction |-> FALSE]
             ELSE [science_dark_files |-> ScienceDarkFiles(n),
                   shared_dark_files |-> FALSE,
                   skip_science_dark_correction |-> TRUE]
        ELSE IF ScienceDarkFiles(n) = <<>>
             THEN [science_dark_files |-> ScienceDarkFiles(n),
                   shared_dark_files |-> FALSE,
                   skip_science_dark_correction |-> TRUE]
             ELSE [science_dark_files |-> ScienceDarkFiles(n),
                   shared_dark_files |-> FALSE,
                   skip_science_dark_correction |-> FALSE]

\* BiasPlan with the flat directory's bias files looked at first
BiasPlanFlatFirst(n, skip_science_dark_correction) ==
    IF skip_science_dark_correction /\ FlatBiasFiles(n) # <<>>
    THEN [use_bias_correction |-> TRUE,
          bias_files_for_science |-> FlatBiasFiles(n),
          bias_dir_for_science |-> "flat"]
    ELSE IF skip_science_dark_correction /\ ScienceBiasFiles(n) # <<>>
    THEN [use_bias_correction |-> TRUE,
          bias_files_for_science |-> ScienceBiasFiles(n),
          bias_dir_for_science |-> "sci"]
    ELSE [use_bias_correction |-> FALSE,
          bias_files_for_science |-> <<>>,
          bias_dir_for_science |-> None]

\* BiasPlan with the bias files used whether or not the darks are skipped
BiasPlanAlways(n, skip_science_dark_correction) ==
    IF ScienceBiasFiles(n) # <<>>
    THEN [use_bias_correction |-> TRUE,
          bias_files_for_science |-> ScienceBiasFiles(n),
          bias_dir_for_science |-> "sci"]
    ELSE IF FlatBiasFiles(n) # <<>>
    THEN [use_bias_correction |-> TRUE,
          bias_files_for_science |-> FlatBiasFiles(n),
          bias_dir_for_science |-> "flat"]
    ELSE [use_bias_correction |-> FALSE,
          bias_files_for_science |-> <<>>,
          bias_dir_for_science |-> None]

\* photocal.py:225-247, the bias fallback
BiasPlan(n, skip_science_dark_correction) ==
    IF skip_science_dark_correction /\ ScienceBiasFiles(n) # <<>>
    THEN [use_bias_correction |-> TRUE,
          bias_files_for_science |-> ScienceBiasFiles(n),
          bias_dir_for_science |-> "sci"]
    ELSE IF skip_science_dark_correction /\ FlatBiasFiles(n) # <<>>
    THEN [use_bias_correction |-> TRUE,
          bias_files_for_science |-> FlatBiasFiles(n),
          bias_dir_for_science |-> "flat"]
    ELSE [use_bias_correction |-> FALSE,
          bias_files_for_science |-> <<>>,
          bias_dir_for_science |-> None]

\* FlatDarkPlan with the science darks substituted whatever the exposure times
FlatDarkPlanUnchecked(n, science_dark_files, shared_dark_files) ==
    IF FlatDarkFiles(n) = <<>> /\ science_dark_files # <<>>
    THEN [flat_dark_files |-> science_dark_files, shared_dark_files |-> TRUE]
    ELSE [flat_dark_files |-> FlatDarkFiles(n), shared_dark_files |-> shared_dark_files]

\* photocal.py:249-290, the fallback for the darks of the flats
FlatDarkPlan(n, science_dark_files, shared_dark_files) ==
    LET flat_exposure_times == ExposureTimes(Take(FlatFiles(n), FlatSample))
        science_dark_exposure_times == ExposureTimes(science_dark_files)
    IN  IF FlatDarkFiles(n) = <<>> /\ science_dark_files # <<>>
           /\ flat_exposure_times \cap science_dark_exposure_times # {}
        THEN [flat_dark_files |-> science_dark_files, shared_dark_files |-> TRUE]
        ELSE [flat_dark_files |-> FlatDarkFiles(n), shared_dark_files |-> shared_dark_files]

\* Resolve with flat correction planned whether or not the flat directory exists
ResolveFlatAlways(n) ==
    LET sd == ScienceDarkPlan(n)
        bp == BiasPlan(n, sd.skip_science_dark_correction)
        fd == FlatDarkPlan(n, sd.science_dark_files, sd.shared_dark_files)
    IN  [NoLocals EXCEPT
            !.skip_flat_correction = FALSE,
            !.skip_science_dark_correction = sd.skip_science_dark_correction,
            !.science_dark_files = sd.science_dark_files,
            !.use_bias_correction = bp.use_bias_correction,
            !.bias_files_for_science = bp.bias_files_for_science,
            !.bias_dir_for_science = bp.bias_dir_for_science,
            !.flat_dark_files = fd.flat_dark_files,
            !.shared_dark_files = fd.shared_dark_files]

\* Resolve with the master frames of the night before left in the local
\* variables (no "= None" at photocal.py:330, 347-348, 423-424)
ResolveKeepingMasters(n) ==
    LET sd == ScienceDarkPlan(n)
        bp == BiasPlan(n, sd.skip_science_dark_correction)
        fd == FlatDarkPlan(n, sd.science_dark_files, sd.shared_dark_files)
    IN  [loc EXCEPT
            !.skip_flat_correction = ~n.flatDir,
            !.skip_science_dark_correction = sd.skip_science_dark_correction,
            !.science_dark_files = sd.science_dark_files,
            !.use_bias_correction = bp.use_bias_correction,
            !.bias_files_for_science = bp.bias_files_for_science,
            !.bias_dir_for_science = bp.bias_dir_for_science,
            !.flat_dark_files = fd.flat_dark_files,
            !.shared_dark_files = fd.shared_dark_files,
            !.idx = 0]

\* photocal.py:149-324, the local variables of a night after its resolution
Resolve(n) ==
    LET sd == ScienceDarkPlan(n)
        bp == BiasPlan(n, sd.skip_science_dark_correction)
        fd == FlatDarkPlan(n, sd.science_dark_files, sd.shared_dark_files)
    IN  [NoLocals EXCEPT
            !.skip_flat_correction = ~n.flatDir,
            !.skip_science_dark_correction = sd.skip_science_dark_correction,
            !.science_dark_files = sd.science_dark_files,
            !.use_bias_correction = bp.use_bias_correction,
            !.bias_files_for_science = bp.bias_files_for_science,
            !.bias_dir_for_science = bp.bias_dir_for_science,
            !.flat_dark_files = fd.flat_dark_files,
            !.shared_dark_files = fd.shared_dark_files]

\* ------------------------------------------------------------ invocation
AllDates == [i \in 1..NumNights |-> i]

\* main is started on the data directory (all its dates, sorted), with or
\* without --force (photocal.py:67-114)
Invoke ==
    /\ pc = "idle"
    /\ \E f \in BOOLEAN : force' = f
    /\ dates' = AllDates
    /\ di' = 1
    /\ pc' = "loop"
    /\ loc' = NoLocals
    /\ status' = [d \in Dates |-> "none"]
    /\ touched' = [d \in Dates |-> NoneTouched]
    /\ calls' = NoCalls
    /\ exit' = "running"
    /\ previous' = exit
    /\ UNCHANGED <<ccd, night, disk>>

AtDate == pc = "loop" /\ di <= Len(dates)

date == dates[di]

\* CalibrationExists asking for the calibrated file of every science frame
CalibrationComplete(d) ==
    /\ ~force
    /\ disk[d].cal
    /\ \A i \in 1..Len(night[d].science) : disk[d].out[i].written

\* CalibrationExists with a pattern no calibrated file matches
CalibrationNeverFound(d) == FALSE

\* CalibrationExists looking at the output directory also under --force
CalibrationExistsForced(d) ==
    /\ disk[d].cal
    /\ \E i \in 1..Len(night[d].science) : disk[d].out[i].written

\* photocal.py:132-135
CalibrationExists(d) ==
    /\ ~force
    /\ disk[d].cal
    /\ \E i \in 1..Len(night[d].science) : disk[d].out[i].written

\* NextDate as a return from main in place of the continue
NextDateReturn(outcome) ==
    /\ status' = [status EXCEPT ![date] = outcome]
    /\ di' = di
    /\ pc' = "idle"

\* photocal.py:138, 147, 174, 119: on to the next date of the loop
NextDate(outcome) ==
    /\ status' = [status EXCEPT ![date] = outcome]
    /\ di' = di + 1
    /\ pc' = "loop"

\* photocal.py:130-138
SkipCalibrated ==
    /\ AtDate
    /\ CalibrationExists(date)
    /\ NextDate("calibrated")
    /\ UNCHANGED <<ccd, previous, night, disk, force, dates, loc, touched, calls, exit>>

\* photocal.py:144-147
SkipNoScienceDir ==
    /\ AtDate
    /\ ~CalibrationExists(date)
    /\ ~night[date].sciDir
    /\ NextDate("no_science_dir")
    /\ UNCHANGED <<ccd, previous, night, disk, force, dates, loc, touched, calls, exit>>

\* photocal.py:170-174
SkipNoScienceFiles ==
    /\ AtDate
    /\ ~CalibrationExists(date)
    /\ night[date].sciDir
    /\ ScienceFiles(night[date]) = <<>>
    /\ NextDate("no_science_files")
    /\ UNCHANGED <<ccd, previous, night, disk, force, dates, loc, touched, calls, exit>>

\* photocal.py:149-324: the plan of the night, and the output directory is made
ResolveNight ==
    /\ AtDate
    /\ ~CalibrationExists(date)
    /\ night[date].sciDir
    /\ ScienceFiles(night[date]) # <<>>
    /\ loc' = Resolve(night[date])
    /\ disk' = [disk EXCEPT ![date].cal = TRUE]
    /\ status' = [status EXCEPT ![date] = "started"]
    /\ calls' = NoCalls
    /\ pc' = "bias"
    /\ UNCHANGED <<ccd, previous, night, force, dates, di, touched, exit>>

\* ------------------------------------------------------- master frames
\* An exception nobody catches, or sys.exit: main ends here.
Abort(how) ==
    /\ pc' = "idle"
    /\ exit' = how
    /\ status' = [status EXCEPT ![date] = "failed"]

Touch(file) == touched' = [touched EXCEPT ![date].masters = @ \cup {file}]

Called(routine) == calls' = [calls EXCEPT ![routine] = @ + 1]

UseBias == loc.use_bias_correction /\ loc.bias_files_for_science # <<>>

\* calibration.py:197-229
CombineBias(bias_images) == Frame("MASTERBIAS", bias_images[1].dir, bias_images[1].exp)

\* photocal.py:331-332
NoMasterBias ==
    /\ pc = "bias"
    /\ ~UseBias
    /\ pc' = "darks"
    /\ UNCHANGED <<ccd, previous, night, disk, force, dates, di, loc, status, touched, calls, exit>>

\* photocal.py:333-336
LoadMasterBias ==
    /\ pc = "bias"
    /\ UseBias
    /\ Exists(disk[date].MASTERBIAS) /\ ~force
    /\ loc' = [loc EXCEPT !.science_master_bias = disk[date].MASTERBIAS]
    /\ pc' = "darks"
    /\ UNCHANGED <<ccd, previous, night, disk, force, dates, di, status, touched, calls, exit>>

\* photocal.py:337-343; combine_bias also writes the master bias into the
\* directory of the bias files (calibration.py:218-227)
CreateMasterBias ==
    /\ pc = "bias"
    /\ UseBias
    /\ ~(Exists(disk[date].MASTERBIAS) /\ ~force)
    /\ LET science_master_bias == CombineBias(loc.bias_files_for_science)
       IN  /\ loc' = [loc EXCEPT !.science_master_bias = science_master_bias]
           /\ disk' = IF loc.bias_dir_for_science = "sci"
                      THEN [disk EXCEPT ![date].sciMASTERBIAS = science_master_bias,
                                        ![date].MASTERBIAS = science_master_bias]
                      ELSE [disk EXCEPT ![date].flatMASTERBIAS = science_master_bias,
                                        ![date].MASTERBIAS = science_master_bias]
    /\ Called("combine_bias")
    /\ Touch("MASTERBIAS")
    /\ pc' = "darks"
    /\ UNCHANGED <<ccd, previous, night, force, dates, di, status, exit>>

\* InconsistentExposure comparing the first and the last frame only
InconsistentExposureEnds(dark_images) ==
    dark_images[1].exp # dark_images[Len(dark_images)].exp

\* calibration.py:256-261: the exposure times of a dark stack disagree
InconsistentExposure(dark_images) == Cardinality(ExposureTimes(dark_images)) > 1

\* calibration.py:263-271, the master dark of a consistent stack
CombineDarks(dark_images) == Frame("MASTERDARK", dark_images[1].dir, dark_images[1].exp)

\* combine_darks writing the master dark before it looks at the exposure times
CombineDarksWritesFirst(dark_images, file) ==
    [disk EXCEPT ![date][file] = CombineDarks(dark_images)]

\* calibration.py:255-271, the disk after combine_darks(dark_images, path):
\* the master dark is written into the directory path (file: its master dark
\* file) only when the exposure times agree, the ValueError of line 261 comes
\* before image_combine and before master_dark.write
CombineDarksWrites(dark_images, file) ==
    IF InconsistentExposure(dark_images)
    THEN disk
    ELSE [disk EXCEPT ![date][file] = CombineDarks(dark_images)]

\* UseSharedDark with the sharing never noticed
NeverSharedDark == FALSE

\* photocal.py:350
UseSharedDark == loc.shared_dark_files /\ loc.flat_dark_files # <<>>

\* photocal.py:353-361, 377-379
LoadSharedMasterDark ==
    /\ pc = "darks"
    /\ UseSharedDark
    /\ (Exists(disk[date].MASTERDARK) \/ Exists(disk[date].MASTERDARK_FLAT)) /\ ~force
    /\ LET shared_master_dark == IF Exists(disk[date].MASTERDARK)
                                 THEN disk[date].MASTERDARK
                                 ELSE disk[date].MASTERDARK_FLAT
       IN  loc' = [loc EXCEPT !.flat_master_dark = shared_master_dark,
                              !.science_master_dark = shared_master_dark]
    /\ pc' = "flat"
    /\ UNCHANGED <<ccd, previous, night, disk, force, dates, di, status, touched, calls, exit>>

\* photocal.py:362-379; combine_darks writes the master dark into the flat
\* directory (path = flat_dir, photocal.py:370)
CreateSharedMasterDark ==
    /\ pc = "darks"
    /\ UseSharedDark
    /\ ~((Exists(disk[date].MASTERDARK) \/ Exists(disk[date].MASTERDARK_FLAT)) /\ ~force)
    /\ Called("combine_darks")
    /\ IF InconsistentExposure(loc.flat_dark_files)
       THEN /\ Abort("ValueError")
            /\ disk' = CombineDarksWrites(loc.flat_dark_files, "flatMASTERDARK")
            /\ UNCHANGED <<loc, touched>>
       ELSE LET shared_master_dark == CombineDarks(loc.flat_dark_files)
            IN  /\ disk' = [CombineDarksWrites(loc.flat_dark_files, "flatMASTERDARK")
                               EXCEPT ![date].MASTERDARK = shared_master_dark,
                                      ![date].MASTERDARK_FLAT = shared_master_dark]
                /\ loc' = [loc EXCEPT !.flat_master_dark = shared_master_dark,
                                      !.science_master_dark = shared_master_dark]
                /\ touched' = [touched EXCEPT ![date].masters = @ \cup {"MASTERDARK", "MASTERDARK_FLAT"}]
                /\ pc' = "flat"
                /\ UNCHANGED <<status, exit>>
    /\ UNCHANGED <<ccd, previous, night, force, dates, di>>

\* photocal.py:383-399
FlatMasterDark ==
    /\ pc = "darks"
    /\ ~UseSharedDark
    /\ IF loc.flat_dark_files = <<>>
       THEN /\ pc' = "sdark"
            /\ UNCHANGED <<disk, loc, touched, calls, status, exit>>
       ELSE IF Exists(disk[date].MASTERDARK_FLAT) /\ ~force
       THEN /\ loc' = [loc EXCEPT !.flat_master_dark = disk[date].MASTERDARK_FLAT]
            /\ pc' = "sdark"
            /\ UNCHANGED <<disk, touched, calls, status, exit>>
       ELSE /\ Called("combine_darks")
            /\ IF InconsistentExposure(loc.flat_dark_files)
               THEN /\ Abort("ValueError")
                    /\ disk' = CombineDarksWrites(loc.flat_dark_files, "flatMASTERDARK")
                    /\ UNCHANGED <<loc, touched>>
               ELSE LET flat_master_dark == CombineDarks(loc.flat_dark_files)
                    IN  /\ disk' = [CombineDarksWrites(loc.flat_dark_files, "flatMASTERDARK")
                                       EXCEPT ![date].MASTERDARK_FLAT = flat_master_dark]
                        /\ loc' = [loc EXCEPT !.flat_master_dark = flat_master_dark]
                        /\ Touch("MASTERDARK_FLAT")
                        /\ pc' = "sdark"
                        /\ UNCHANGED <<status, exit>>
    /\ UNCHANGED <<ccd, previous, night, force, dates, di>>

\* photocal.py:401-420
ScienceMasterDark ==
    /\ pc = "sdark"
    /\ IF ~(~loc.skip_science_dark_correction /\ loc.science_dark_files # <<>>)
       THEN /\ pc' = "flat"
            /\ UNCHANGED <<disk, loc, touched, calls, status, exit>>
       ELSE IF Exists(disk[date].MASTERDARK) /\ ~force
       THEN /\ loc' = [loc EXCEPT !.science_master_dark = disk[date].MASTERDARK]
            /\ pc' = "flat"
            /\ UNCHANGED <<disk, touched, calls, status, exit>>
       ELSE /\ Called("combine_darks")
            /\ IF InconsistentExposure(loc.science_dark_files)
               THEN /\ Abort("ValueError")
                    /\ disk' = CombineDarksWrites(loc.science_dark_files, "sciMASTERDARK")
                    /\ UNCHANGED <<loc, touched>>
               ELSE LET science_master_dark == CombineDarks(loc.science_dark_files)
                    IN  /\ disk' = [CombineDarksWrites(loc.science_dark_files, "sciMASTERDARK")
                                       EXCEPT ![date].MASTERDARK = science_master_dark]
                        /\ loc' = [loc EXCEPT !.science_master_dark = science_master_dark]
                        /\ Touch("MASTERDARK")
                        /\ pc' = "flat"
                        /\ UNCHANGED <<status, exit>>
    /\ UNCHANGED <<ccd, previous, night, force, dates, di>>

\* FlatCached with the cached files never reused
FlatNeverCached == FALSE

\* photocal.py:426: the master flat and the mask are both cached
FlatCached == Exists(disk[date].MASTERFLAT) /\ Exists(disk[date].MASK) /\ ~force

\* photocal.py:425, 441-442
SkipMasterFlat ==
    /\ pc = "flat"
    /\ loc.skip_flat_correction
    /\ loc' = [loc EXCEPT !.idx = 1]
    /\ pc' = "sci"
    /\ UNCHANGED <<ccd, previous, night, disk, force, dates, di, status, touched, calls, exit>>

\* photocal.py:426-431
LoadMasterFlat ==
    /\ pc = "flat"
    /\ ~loc.skip_flat_correction
    /\ FlatCached
    /\ loc' = [loc EXCEPT !.flat_master = disk[date].MASTERFLAT,
                          !.mask = disk[date].MASK,
                          !.idx = 1]
    /\ pc' = "sci"
    /\ UNCHANGED <<ccd, previous, night, disk, force, dates, di, status, touched, calls, exit>>

\* calibration.py:84-86, the master flat made with master dark master_dark
MasterFlatOf(flat_images, master_dark) ==
    Frame("MASTERFLAT", master_dark.from, flat_images[1].exp)

\* photocal.py:432-435 with generate_flat (calibration.py:43-91): the master
\* dark is read from the flat directory, sys.exit(1) when it is not there; an
\* empty stack of flats makes ccdproc.combine raise
GenerateFlat ==
    /\ pc = "flat"
    /\ ~loc.skip_flat_correction
    /\ ~FlatCached
    /\ Called("generate_flat")
    /\ IF ~Exists(disk[date].flatMASTERDARK)
       THEN /\ Abort("SystemExit")
            /\ UNCHANGED <<disk, loc, touched>>
       ELSE IF FlatFiles(night[date]) = <<>>
       THEN /\ Abort("Exception")
            /\ UNCHANGED <<disk, loc, touched>>
       ELSE LET flat_master == MasterFlatOf(FlatFiles(night[date]), disk[date].flatMASTERDARK)
            IN  /\ disk' = [disk EXCEPT ![date].flatMASTERFLAT = flat_master,
                                        ![date].MASTERFLAT = flat_master]
                /\ loc' = [loc EXCEPT !.flat_master = flat_master]
                /\ Touch("MASTERFLAT")
                /\ pc' = "mask"
                /\ UNCHANGED <<status, exit>>
    /\ UNCHANGED <<ccd, previous, night, force, dates, di>>

\* calibration.py:149-152, the mask derived from a master flat
MaskOf(master_flat) == Frame("MASK", master_flat.from, master_flat.exptime)

\* photocal.py:436-440 with generate_mask (calibration.py:94-160)
GenerateMask ==
    /\ pc = "mask"
    /\ Called("generate_mask")
    /\ IF ~Exists(disk[date].flatMASTERFLAT)
       THEN /\ Abort("SystemExit")
            /\ UNCHANGED <<disk, loc, touched>>
       ELSE LET mask == MaskOf(disk[date].flatMASTERFLAT)
            IN  /\ disk' = [disk EXCEPT ![date].flatMASK = mask,
                                        ![date].MASK = mask]
                /\ loc' = [loc EXCEPT !.mask = mask, !.idx = 1]
                /\ Touch("MASK")
                /\ pc' = "sci"
                /\ UNCHANGED <<status, exit>>
    /\ UNCHANGED <<ccd, previous, night, force, dates, di>>

\* ------------------------------------------------------- science frames
\* calibration.py:296-314: which master frames a science frame is corrected with
CalibrateScienceImage(master_bias, master_dark, master_flat, mask) ==
    [written |-> TRUE, bias |-> master_bias, dark |-> master_dark,
     flat |-> master_flat, mask |-> mask]

\* photocal.py:450-471, one science frame: calibrated and written as <name>_CAL.fits
CalibrateFrame ==
    /\ pc = "sci"
    /\ loc.idx <= Len(ScienceFiles(night[date]))
    /\ IF ScienceFiles(night[date])[loc.idx].exp = Unreadable
       THEN /\ Abort("OSError")
            /\ UNCHANGED <<disk, touched, loc>>
       ELSE /\ disk' = [disk EXCEPT ![date].out[loc.idx] =
                           CalibrateScienceImage(loc.science_master_bias,
                                                 loc.science_master_dark,
                                                 loc.flat_master, loc.mask)]
            /\ touched' = [touched EXCEPT ![date].out = @ \cup {loc.idx}]
            /\ loc' = [loc EXCEPT !.idx = @ + 1]
            /\ UNCHANGED <<pc, status, exit>>
    /\ UNCHANGED <<ccd, previous, night, force, dates, di, calls>>

\* photocal.py:450, 119: the science frames are done, on to the next date
EndNight ==
    /\ pc = "sci"
    /\ loc.idx > Len(ScienceFiles(night[date]))
    /\ NextDate("processed")
    /\ UNCHANGED <<ccd, previous, night, disk, force, dates, loc, touched, calls, exit>>

\* photocal.py:477-479
Finish ==
    /\ pc = "loop"
    /\ di > Len(dates)
    /\ pc' = "idle"
    /\ exit' = "ok"
    /\ UNCHANGED <<ccd, previous, night, disk, force, dates, di, loc, status, touched, calls>>

\* the process is killed between two steps: what it held in memory is gone,
\* what it wrote stays
Kill ==
    /\ pc # "idle"
    /\ pc' = "idle"
    /\ exit' = "killed"
    /\ force' = FALSE
    /\ dates' = <<>>
    /\ di' = 0
    /\ loc' = NoLocals
    /\ status' = [d \in Dates |-> "none"]
    /\ touched' = [d \in Dates |-> NoneTouched]
    /\ calls' = NoCalls
    /\ previous' = "none"
    /\ UNCHANGED <<ccd, night, disk>>

Next ==
    \/ Invoke
    \/ SkipCalibrated
    \/ SkipNoScienceDir
    \/ SkipNoScienceFiles
    \/ ResolveNight
    \/ NoMasterBias
    \/ LoadMasterBias
    \/ CreateMasterBias
    \/ LoadSharedMasterDark
    \/ CreateSharedMasterDark
    \/ FlatMasterDark
    \/ ScienceMasterDark
    \/ SkipMasterFlat
    \/ LoadMasterFlat
    \/ GenerateFlat
    \/ GenerateMask
    \/ CalibrateFrame
    \/ EndNight
    \/ Finish
    \/ Kill

Spec == Init /\ [][Next]_vars

\* main on a data directory where a science file of one night may be corrupt
InitUnreadable ==
    /\ \E rich \in Dates, c \in UnreadableNightCfgs, p \in [Dates -> PlainNights] :
         night = [p EXCEPT ![rich] = c]
    /\ disk = [d \in Dates |-> EmptyDisk]
    /\ pc = "idle"
    /\ force = FALSE
    /\ dates = <<>>
    /\ di = 0
    /\ loc = NoLocals
    /\ status = [d \in Dates |-> "none"]
    /\ touched = [d \in Dates |-> NoneTouched]
    /\ calls = NoCalls
    /\ exit = "none"
    /\ previous = "none"
    /\ ccd = NoCall

SpecUnreadable == InitUnreadable /\ [][Next]_vars

\* the number of flat files beyond the first FlatSample
MoreFlats == 1

\* lists of more than FlatSample flat files: all of EXPTIME 10 but at most one,
\* of EXPTIME 90, at any place of the list (glob gives the files in the order
\* of the directory)
LongFlatLists ==
    {[i \in 1..(FlatSample + MoreFlats) |-> IF i = k THEN 90 ELSE 10] :
        k \in 0..(FlatSample + MoreFlats)}

\* The directories of NightCfgs, and those with a long list of flats where
\* the flat directory has no darks and the science directory has some
\* (photocal.py:250-256)
ManyFlatsNightCfgs ==
    NightCfgs \cup
    {[c EXCEPT !.skyflat = flats] :
        c \in {n \in NightCfgs : n.flatDir /\ n.flatDark = <<>> /\ n.sciDark # <<>>},
        flats \in LongFlatLists}

\* main on a data directory where one night may have more than FlatSample flats
InitManyFlats ==
    /\ \E rich \in Dates, c \in ManyFlatsNightCfgs, p \in [Dates -> PlainNights] :
         night = [p EXCEPT ![rich] = c]
    /\ disk = [d \in Dates |-> EmptyDisk]
    /\ pc = "idle"
    /\ force = FALSE
    /\ dates = <<>>
    /\ di = 0
    /\ loc = NoLocals
    /\ status = [d \in Dates |-> "none"]
    /\ touched = [d \in Dates |-> NoneTouched]
    /\ calls = NoCalls
    /\ exit = "none"
    /\ previous = "none"
    /\ ccd = NoCall

SpecManyFlats == InitManyFlats /\ [][Next]_vars

\* =========================================== the routines of calibration.py
\* combine_darks and calibrate_science_image followed one statement at a
\* time on small frames.  A frame is its pixel values, its EXPTIME and its
\* flag array (empty when it has none); a pixel value is a real number, kept
\* as a reduced fraction.
NPix == 2
MaxStack == 3

Abs(x) == IF x < 0 THEN -x ELSE x

RECURSIVE GCD(_, _)
GCD(a, b) == IF b = 0 THEN a ELSE GCD(b, a % b)

Rat(n, d) ==
    LET sign == IF d < 0 THEN -1 ELSE 1
        g == GCD(Abs(n), Abs(d))
    IN  [num |-> (sign * n) \div g, den |-> (sign * d) \div g]

RAdd(x, y) == Rat(x.num * y.den + y.num * x.den, x.den * y.den)
RSub(x, y) == Rat(x.num * y.den - y.num * x.den, x.den * y.den)
RMul(x, y) == Rat(x.num * y.num, x.den * y.den)
RDiv(x, y) == Rat(x.num * y.den, x.den * y.num)

RECURSIVE RSum(_)
RSum(data) == IF data = <<>> THEN Rat(0, 1) ELSE RAdd(Head(data), RSum(Tail(data)))

\* numpy's data.mean()
Mean(data) == RDiv(RSum(data), Rat(Len(data), 1))

\* a frame without flag array (its mask is None)
NoMask == <<>>

CCD(data, exptime) == [data |-> data, exptime |-> exptime, mask |-> NoMask]

\* None where a frame is expected
NoCCD == CCD(<<>>, 0)

\* the frame whose first pixel is first/den and whose next pixels go up by step/den
Pixels(first, step, den) == [p \in 1..NPix |-> Rat(first + step * (p - 1), den)]

\* the frames of the test suite (test_calibration.py:136-199) and frames that
\* are not constant
ScienceImages == {CCD(Pixels(1000, 0, 1), e) : e \in ExpTimes}
                     \cup {CCD(Pixels(1000, -200, 1), e) : e \in ExpTimes}
BiasFrames == {CCD(Pixels(100, 0, 1), 0)}
DarkFrames == {CCD(Pixels(v, 0, 1), e) : v \in {100, 150}, e \in ExpTimes}
FlatFrames == {CCD(Pixels(8, 0, 10), 0), CCD(Pixels(1, 0, 1), 0), CCD(Pixels(8, 4, 10), 0)}
MaskFrames == {CCD([p \in 1..NPix |-> 0], 0),
               CCD([p \in 1..NPix |-> IF p = 1 THEN 1 ELSE 0], 0),
               CCD([p \in 1..NPix |-> IF p = NPix THEN 2 ELSE 0], 0)}

\* ccdp.subtract_bias with the operands exchanged
SubtractBiasSwapped(ccd_, master) ==
    [ccd_ EXCEPT !.data = [p \in 1..NPix |-> RSub(master.data[p], ccd_.data[p])]]

\* calibration.py:300, ccdp.subtract_bias
SubtractBias(ccd_, master) ==
    [ccd_ EXCEPT !.data = [p \in 1..NPix |-> RSub(ccd_.data[p], master.data[p])]]

\* calibration.py:78, 304: ccdp.subtract_dark(frame, master_dark,
\* exposure_time='EXPTIME', exposure_unit=u.second); scale is left at its
\* default False, so the two EXPTIMEs are read and the master dark is
\* subtracted as it is
SubtractDark(ccd_, master) ==
    [ccd_ EXCEPT !.data = [p \in 1..NPix |-> RSub(ccd_.data[p], master.data[p])]]

\* ccdp.flat_correct without the normalisation of the flat
FlatCorrectRaw(ccd_, flat) ==
    [ccd_ EXCEPT !.data = [p \in 1..NPix |-> RDiv(ccd_.data[p], flat.data[p])]]

\* calibration.py:308, ccdp.flat_correct(sci_cal, master_flat): the flat is
\* divided by its mean (no norm_value is given) and the frame is divided by
\* that normalised flat
FlatCorrect(ccd_, flat) ==
    LET flat_mean == Mean(flat.data)
        flat_normed == [p \in 1..NPix |-> RDiv(flat.data[p], flat_mean)]
    IN  [ccd_ EXCEPT !.data = [p \in 1..NPix |-> RDiv(ccd_.data[p], flat_normed[p])]]

\* the mask attached by blanking the flagged pixels
AttachMaskBlanking(ccd_, mask_) ==
    [ccd_ EXCEPT !.data = [p \in 1..NPix |->
                              IF mask_.data[p] # 0 THEN Rat(0, 1) ELSE ccd_.data[p]],
                 !.mask = [p \in 1..NPix |-> mask_.data[p] = 1]]

\* calibration.py:312, sci_cal.mask = mask.data.astype(bool)
AttachMask(ccd_, mask_) ==
    [ccd_ EXCEPT !.mask = [p \in 1..NPix |-> mask_.data[p] # 0]]

\* the statements of calibrate_science_image with the mask attached first
StepsMaskFirst == <<"mask", "bias", "dark", "flat">>

\* calibration.py:298-312, the statements of calibrate_science_image in the
\* order of the text
Steps == <<"bias", "dark", "flat", "mask">>

CalibrateAt(step) ==
    /\ ccd.routine = "calibrate_science_image"
    /\ ccd.at <= Len(Steps)
    /\ Steps[ccd.at] = step

\* the ccdproc routines return a new frame (ccdp.subtract_bias,
\* ccdp.subtract_dark and ccdp.flat_correct build their result with
\* ccd.subtract and ccd.divide); the assignment to sci_cal.mask
\* (calibration.py:312) changes the object sci_cal names
ReturnsNewFrame(step) == step \in {"bias", "dark", "flat"}

\* the step is done: sci_cal after it, and the step noted if it was applied.
\* sci_cal names the object science_image (calibration.py:296) until a step
\* that returns a new frame is applied; as long as it does, what is done to
\* sci_cal is done to the frame the caller passed
CalibrateStepDone(step, applied, sci_cal) ==
    LET same == ccd.same /\ ~(applied /\ ReturnsNewFrame(step))
    IN  ccd' = [ccd EXCEPT !.sci_cal = sci_cal,
                           !.same = same,
                           !.science_image = IF same THEN sci_cal ELSE @,
                           !.steps = IF applied THEN Append(@, step) ELSE @,
                           !.after = Append(@, sci_cal),
                           !.at = @ + 1]

\* a call of calibrate_science_image (calibration.py:273-296)
CalibrateCall ==
    /\ ccd = NoCall
    /\ \E science_image \in ScienceImages,
          master_bias \in BiasFrames \cup {NoCCD},
          master_dark \in DarkFrames \cup {NoCCD},
          master_flat \in FlatFrames \cup {NoCCD},
          mask_ \in MaskFrames \cup {NoCCD} :
         ccd' = [routine |-> "calibrate_science_image", at |-> 1,
                 science_image |-> science_image,
                 master_bias |-> master_bias, master_dark |-> master_dark,
                 master_flat |-> master_flat, mask |-> mask_,
                 sci_cal |-> science_image, same |-> TRUE,
                 steps |-> <<>>, after |-> <<>>]
    /\ UNCHANGED pipeline

\* calibration.py:299-300
BiasStep ==
    /\ CalibrateAt("bias")
    /\ IF ccd.master_bias # NoCCD
       THEN CalibrateStepDone("bias", TRUE, SubtractBias(ccd.sci_cal, ccd.master_bias))
       ELSE CalibrateStepDone("bias", FALSE, ccd.sci_cal)
    /\ UNCHANGED pipeline

\* calibration.py:303-304
DarkStep ==
    /\ CalibrateAt("dark")
    /\ IF ccd.master_dark # NoCCD
       THEN CalibrateStepDone("dark", TRUE, SubtractDark(ccd.sci_cal, ccd.master_dark))
       ELSE CalibrateStepDone("dark", FALSE, ccd.sci_cal)
    /\ UNCHANGED pipeline

\* calibration.py:307-308
FlatStep ==
    /\ CalibrateAt("flat")
    /\ IF ccd.master_flat # NoCCD
       THEN CalibrateStepDone("flat", TRUE, FlatCorrect(ccd.sci_cal, ccd.master_flat))
       ELSE CalibrateStepDone("flat", FALSE, ccd.sci_cal)
    /\ UNCHANGED pipeline

\* calibration.py:311-312
MaskStep ==
    /\ CalibrateAt("mask")
    /\ IF ccd.mask # NoCCD
       THEN CalibrateStepDone("mask", TRUE, AttachMask(ccd.sci_cal, ccd.mask))
       ELSE CalibrateStepDone("mask", FALSE, ccd.sci_cal)
    /\ UNCHANGED pipeline

\* calibration.py:314
CalibrateReturn ==
    /\ ccd.routine = "calibrate_science_image"
    /\ ccd.at > Len(Steps)
    /\ ccd' = NoCall
    /\ UNCHANGED pipeline

\* a call of combine_darks on a stack of dark frames that is not empty
\* (calibration.py:231)
CombineDarksCall ==
    /\ ccd = NoCall
    /\ \E exptimes \in SeqsUpTo(ExpTimes, MaxStack) \ {<<>>} :
         ccd' = [routine |-> "combine_darks", at |-> "exptimes",
                 dark_images |-> Glob("sci", exptimes),
                 raised |-> None, master_dark |-> NoFrame]
    /\ UNCHANGED pipeline

\* calibration.py:256-271
CombineDarksRun ==
    /\ ccd.routine = "combine_darks" /\ ccd.at = "exptimes"
    /\ IF InconsistentExposure(ccd.dark_images)
       THEN ccd' = [ccd EXCEPT !.raised = "ValueError", !.at = "return"]
       ELSE ccd' = [ccd EXCEPT !.master_dark = CombineDarks(ccd.dark_images),
                               !.at = "return"]
    /\ UNCHANGED pipeline

\* combine_darks has returned or raised
CombineDarksReturn ==
    /\ ccd.routine = "combine_darks" /\ ccd.at = "return"
    /\ ccd' = NoCall
    /\ UNCHANGED pipeline

\* ------------------------------------------------- image_combine
\* the largest number of frames handed to image_combine
MaxCombine == 5

\* the sigma arguments of image_combine: the default 3.0 (calibration.py:16)
\* and the 1.0 of the test suite (test_calibration.py:226)
Sigmas == {1, 2, 3}

Methods == {"average", "median"}

\* the value numpy gives where every value of a pixel is clipped
NaN == [num |-> 0, den |-> 0]

RLess(x, y) == x.num * y.den < y.num * x.den

\* the constant frames of the test suite and a frame whose first pixel is a
\* strong outlier (test_calibration.py:212-222)
CombineFrames == {CCD(Pixels(10, 0, 1), 10), CCD(Pixels(50, 0, 1), 10),
                  CCD([p \in 1..NPix |-> IF p = 1 THEN Rat(100, 1) ELSE Rat(10, 1)], 10)}

\* the values of pixel p through the stack
Column(images, p) == [i \in 1..Len(images) |-> images[i].data[p]]

\* numpy's std(axis=0) squared: the population variance of the values
Variance(values) ==
    LET m == Mean(values)
    IN  Mean([i \in 1..Len(values) |-> RMul(RSub(values[i], m), RSub(values[i], m))])

\* the clipping with the bounds included: a value on the bound is rejected
SigmaClippingInclusive(values, low_thresh, high_thresh) ==
    LET baseline == Mean(values)
        var == Variance(values)
        sq(i) == RMul(RSub(values[i], baseline), RSub(values[i], baseline))
    IN  [i \in 1..Len(values) |->
            \/ ~RLess(baseline, values[i])
               /\ ~RLess(sq(i), RMul(Rat(low_thresh * low_thresh, 1), var))
            \/ ~RLess(values[i], baseline)
               /\ ~RLess(sq(i), RMul(Rat(high_thresh * high_thresh, 1), var))]

\* a clipping that rejects nothing
SigmaClippingNone(values, low_thresh, high_thresh) ==
    [i \in 1..Len(values) |-> FALSE]

\* Combiner.sigma_clipping of ccdproc as ccdp.combine calls it for
\* calibration.py:35-39 (sigma_clip=True, func the mean, dev_func the
\* standard deviation): one pass; a value is rejected when
\* value - baseline < -low_thresh * dev or value - baseline > high_thresh * dev.
\* dev is a square root, so both sides are compared squared
SigmaClipping(values, low_thresh, high_thresh) ==
    LET baseline == Mean(values)
        var == Variance(values)
        sq(i) == RMul(RSub(values[i], baseline), RSub(values[i], baseline))
    IN  [i \in 1..Len(values) |->
            \/ RLess(values[i], baseline)
               /\ RLess(RMul(Rat(low_thresh * low_thresh, 1), var), sq(i))
            \/ RLess(baseline, values[i])
               /\ RLess(RMul(Rat(high_thresh * high_thresh, 1), var), sq(i))]

\* the values that are not rejected, in the order of the stack
RECURSIVE Unclipped(_, _)
Unclipped(values, rejected) ==
    IF values = <<>> THEN <<>>
    ELSE LET rest == Unclipped(Tail(values), Tail(rejected))
         IN  IF Head(rejected) THEN rest ELSE <<Head(values)>> \o rest

\* the values with v put at its place in an ascending sequence
RECURSIVE Insert(_, _)
Insert(v, sorted) ==
    IF sorted = <<>> THEN <<v>>
    ELSE IF RLess(Head(sorted), v) THEN <<Head(sorted)>> \o Insert(v, Tail(sorted))
    ELSE <<v>> \o sorted

RECURSIVE Sort(_)
Sort(values) == IF values = <<>> THEN <<>> ELSE Insert(Head(values), Sort(Tail(values)))

\* numpy's median of the values left
Median(values) ==
    LET sorted == Sort(values)
        n == Len(values)
    IN  IF n % 2 = 1 THEN sorted[(n + 1) \div 2]
        ELSE RDiv(RAdd(sorted[n \div 2], sorted[n \div 2 + 1]), Rat(2, 1))

\* the sum of the values left, not divided by their number
AverageSum(values) == RSum(values)

\* Combiner.average_combine: the mean of the values left
Average(values) == Mean(values)

\* one pixel of the combined frame
CombinePixel(values, method, sigma_clip, sigma) ==
    LET left == IF sigma_clip
                THEN Unclipped(values, SigmaClipping(values, sigma, sigma))
                ELSE values
    IN  IF left = <<>> THEN NaN
        ELSE IF method = "median" THEN Median(left)
        ELSE Average(left)

\* calibration.py:35-41, ccdp.combine on a list that is not empty; the
\* header of the result is that of the first frame
ImageCombine(images, method, sigma_clip, sigma) ==
    [data |-> [p \in 1..NPix |->
                  CombinePixel(Column(images, p), method, sigma_clip, sigma)],
     exptime |-> images[1].exptime,
     mask |-> NoMask]

\* a call of image_combine (calibration.py:16)
ImageCombineCall ==
    /\ ccd = NoCall
    /\ \E images \in SeqsUpTo(CombineFrames, MaxCombine), method \in Methods,
          sigma_clip \in BOOLEAN, sigma \in Sigmas :
         ccd' = [routine |-> "image_combine", at |-> "combine",
                 images |-> images, method |-> method,
                 sigma_clip |-> sigma_clip, sigma |-> sigma,
                 raised |-> None, combined |-> NoCCD]
    /\ UNCHANGED pipeline

\* calibration.py:35-39: ccdp.combine reads img_list[0] and raises
\* IndexError on the empty list
ImageCombineRun ==
    /\ ccd.routine = "image_combine" /\ ccd.at = "combine"
    /\ IF ccd.images = <<>>
       THEN ccd' = [ccd EXCEPT !.raised = "IndexError", !.at = "return"]
       ELSE ccd' = [ccd EXCEPT !.combined = ImageCombine(ccd.images, ccd.method,
                                                         ccd.sigma_clip, ccd.sigma),
                               !.at = "return"]
    /\ UNCHANGED pipeline

\* calibration.py:41: image_combine has returned or raised
ImageCombineReturn ==
    /\ ccd.routine = "image_combine" /\ ccd.at = "return"
    /\ ccd' = NoCall
    /\ UNCHANGED pipeline

\* ------------------------------------------------- generate_mask
\* a flat directory by its name cut at the dashes: that of the test suite
\* (test_calibration.py:56) and a name without dashes (a temporary directory,
\* test_calibration.py:256-258)
FlatDirectories == {<<"2012", "06", "04", "CAMS_SKYFLAT">>, <<"tmpdir">>}

\* calibration.py:117-118: the first three fields of the directory name,
\* fewer where the name has fewer
DateOf(flat_directory) ==
    SubSeq(flat_directory, 1, IF Len(flat_directory) < 3 THEN Len(flat_directory) ELSE 3)

\* calibration.py:142, 156: a file of the directory, by directory, date and
\* the rest of its name
PathOf(flat_directory, rest) == <<flat_directory, DateOf(flat_directory), rest>>

\* the files of a directory are a function from the paths that exist to their
\* frames; the directory after frame is written at path
WriteFile(files, path, frame) ==
    [f \in DOMAIN files \cup {path} |-> IF f = path THEN frame ELSE files[f]]

NoFiles == [f \in {} |-> NoCCD]

\* the master flat taken to be there, whatever the directory holds
MasterFlatAssumed(files, path) == TRUE

\* calibration.py:143, os.path.exists
MasterFlatExists(files, path) == path \in DOMAIN files

\* the mask as counts of 0 and 255
MaskAs255(bad) == [p \in 1..NPix |-> IF p \in bad THEN 255 ELSE 0]

\* calibration.py:150, mask.astype('uint8') of the array of booleans that
\* ccdp.ccdmask returns: 1 for a bad pixel, 0 for a good one
MaskAsUint8(bad) == [p \in 1..NPix |-> IF p \in bad THEN 1 ELSE 0]

\* a call of generate_mask (calibration.py:94) on a directory that holds a
\* master flat or none, and a mask of an earlier call or none
GenerateMaskCall ==
    /\ ccd = NoCall
    /\ \E flat_directory \in FlatDirectories, flat \in FlatFrames \cup {NoCCD},
          old \in BOOLEAN :
         LET flat_path == PathOf(flat_directory, "_MASTERFLAT.fits")
             mask_path == PathOf(flat_directory, "_MASK.fits")
             with_flat == IF flat = NoCCD THEN NoFiles
                          ELSE WriteFile(NoFiles, flat_path,
                                         [data |-> flat.data, ACQTYPE |-> "MASTERFLAT"])
             files == IF old
                      THEN WriteFile(with_flat, mask_path,
                                     [data |-> MaskAsUint8({}), ACQTYPE |-> "MASK"])
                      ELSE with_flat
         IN  ccd' = [routine |-> "generate_mask", at |-> "exists",
                     flat_directory |-> flat_directory,
                     given |-> files, files |-> files,
                     raised |-> None,
                     mask_as_ccd |-> [data |-> <<>>, ACQTYPE |-> None]]
    /\ UNCHANGED pipeline

\* calibration.py:141-145: without the master flat the process exits with
\* status 1
GenerateMaskExists ==
    /\ ccd.routine = "generate_mask" /\ ccd.at = "exists"
    /\ IF MasterFlatExists(ccd.files, PathOf(ccd.flat_directory, "_MASTERFLAT.fits"))
       THEN ccd' = [ccd EXCEPT !.at = "mask"]
       ELSE ccd' = [ccd EXCEPT !.raised = "SystemExit", !.at = "return"]
    /\ UNCHANGED pipeline

\* calibration.py:149-158: the master flat is read, ccdp.ccdmask marks some
\* set of its pixels as bad, and the mask is tagged and written over any mask
\* of the same name. Reading a file that is not there raises
GenerateMaskWrite ==
    /\ ccd.routine = "generate_mask" /\ ccd.at = "mask"
    /\ IF PathOf(ccd.flat_directory, "_MASTERFLAT.fits") \in DOMAIN ccd.files
       THEN \E bad \in SUBSET (1..NPix) :
              LET mask_as_ccd == [data |-> MaskAsUint8(bad), ACQTYPE |-> "MASK"]
              IN  ccd' = [ccd EXCEPT
                            !.mask_as_ccd = mask_as_ccd,
                            !.files = WriteFile(@, PathOf(ccd.flat_directory, "_MASK.fits"),
                                                mask_as_ccd),
                            !.at = "return"]
       ELSE ccd' = [ccd EXCEPT !.raised = "FileNotFoundError", !.at = "return"]
    /\ UNCHANGED pipeline

\* calibration.py:145, 160: generate_mask has returned or has ended the process
GenerateMaskReturn ==
    /\ ccd.routine = "generate_mask" /\ ccd.at = "return"
    /\ ccd' = NoCall
    /\ UNCHANGED pipeline

\* ------------------------------------------------- remove_cosmic_rays
\* a frame with its unit attribute and its header; the header is a function
\* from the keys it has to their values
WithHeader(frame, unit, header) ==
    [data |-> frame.data, exptime |-> frame.exptime, mask |-> frame.mask,
     unit |-> unit, header |-> header]

NoImage == WithHeader(NoCCD, None, NoFiles)

\* the keys of an astropy header are looked up without regard to case
Upper(key) == IF key = "bunit" THEN "BUNIT" ELSE key

\* header.get(key, default)
HeaderGet(header, key, default) ==
    IF Upper(key) \in DOMAIN header THEN header[Upper(key)] ELSE default

\* the header with key set to value
HeaderSet(header, key, value) ==
    [k \in DOMAIN header \cup {key} |-> IF k = key THEN value ELSE header[k]]

\* the unit asked of the header alone
MissingUnitHeaderOnly(image) == HeaderGet(image.header, "BUNIT", None) = None

\* calibration.py:190: no BUNIT, no bunit and no unit attribute
MissingUnit(image) ==
    /\ HeaderGet(image.header, "BUNIT", None) = None
    /\ HeaderGet(image.header, "bunit", None) = None
    /\ image.unit = None

\* calibration.py:193, ccdp.cosmicray_lacosmic: the pixels of crmask are
\* flagged and get the mean of the pixels that are not (their value is kept
\* where every pixel is flagged); the unit and the header stay. Which pixels
\* L.A.Cosmic flags is left open
CosmicrayLacosmic(image, crmask) ==
    LET good == {p \in 1..NPix : p \notin crmask}
        fill == IF good = {} THEN <<>>
                ELSE [i \in 1..Cardinality(good) |->
                        image.data[CHOOSE p \in good :
                                     Cardinality({q \in good : q < p}) = i - 1]]
    IN  [image EXCEPT
           !.data = [p \in 1..NPix |->
                        IF p \in crmask /\ good # {} THEN Mean(fill) ELSE image.data[p]],
           !.mask = [p \in 1..NPix |->
                        p \in crmask \/ (image.mask # NoMask /\ image.mask[p])]]

\* the frames remove_cosmic_rays is called on: with and without a unit
\* attribute (test_calibration.py:67, 266), with and without BUNIT
CosmicImages ==
    {WithHeader(CCD(Pixels(100, 0, 1), 10), unit, header) :
        unit \in {None, "adu", "electron"},
        header \in {NoFiles, HeaderSet(NoFiles, "BUNIT", "adu")}}

\* a call of remove_cosmic_rays (calibration.py:162)
RemoveCosmicRaysCall ==
    /\ ccd = NoCall
    /\ \E image \in CosmicImages :
         ccd' = [routine |-> "remove_cosmic_rays", at |-> "unit",
                 image |-> image, raised |-> None, cleaned_image |-> NoImage]
    /\ UNCHANGED pipeline

\* calibration.py:190-193
RemoveCosmicRaysRun ==
    /\ ccd.routine = "remove_cosmic_rays" /\ ccd.at = "unit"
    /\ IF MissingUnit(ccd.image)
       THEN ccd' = [ccd EXCEPT !.raised = "ValueError", !.at = "return"]
       ELSE \E crmask \in SUBSET (1..NPix) :
              ccd' = [ccd EXCEPT !.cleaned_image = CosmicrayLacosmic(ccd.image, crmask),
                                 !.at = "return"]
    /\ UNCHANGED pipeline

\* calibration.py:191, 195: remove_cosmic_rays has raised or returned
RemoveCosmicRaysReturn ==
    /\ ccd.routine = "remove_cosmic_rays" /\ ccd.at = "return"
    /\ ccd' = NoCall
    /\ UNCHANGED pipeline

\* ------------------------------------------------- the science loop of main
\* the name of a science file cut before its extension
ScienceName == <<"17.23.54_SCIENCE", ".fits">>

\* the name of another science file
OtherName == <<"17.25.30_SCIENCE", ".fits">>

\* photocal.py:128
CalPath == <<"2012", "06", "04", "CAMS_CAL">>

\* the values of GAIN and RDNOISE in the headers (test_photocal.py:95)
Gains == {Rat(1, 1), Rat(5, 2)}
ReadNoises == {Rat(5, 1)}

\* photocal.py:460, the gain of a frame without GAIN
DefaultGain == Rat(2, 1)

\* photocal.py:464, the read noise of a frame without RDNOISE
DefaultReadNoise == Rat(9, 1)

\* photocal.py:465
SigClip == 7

\* the headers of the science files: EXPTIME, and GAIN, RDNOISE, ORIGFILE and
\* ACQTYPE or not
ScienceHeaders(exptime) ==
    {[k \in {"EXPTIME"} \cup keys |->
        CASE k = "EXPTIME" -> exptime
          [] k = "GAIN" -> gain
          [] k = "RDNOISE" -> readnoise
          [] k = "ORIGFILE" -> origfile
          [] k = "ACQTYPE" -> "SCIENCE"] :
       keys \in SUBSET {"GAIN", "RDNOISE", "ORIGFILE", "ACQTYPE"},
       gain \in Gains, readnoise \in ReadNoises, origfile \in {ScienceName, OtherName}}

\* the statements of calibrate_science_image run to the end
\* (calibration.py:298-314)
RECURSIVE CalibrateFrom(_, _, _, _, _, _)
CalibrateFrom(at, sci_cal, master_bias, master_dark, master_flat, mask_) ==
    IF at > Len(Steps) THEN sci_cal
    ELSE LET step == Steps[at]
             next == CASE step = "bias" ->
                            IF master_bias # NoCCD THEN SubtractBias(sci_cal, master_bias)
                            ELSE sci_cal
                       [] step = "dark" ->
                            IF master_dark # NoCCD THEN SubtractDark(sci_cal, master_dark)
                            ELSE sci_cal
                       [] step = "flat" ->
                            IF master_flat # NoCCD THEN FlatCorrect(sci_cal, master_flat)
                            ELSE sci_cal
                       [] step = "mask" ->
                            IF mask_ # NoCCD THEN AttachMask(sci_cal, mask_)
                            ELSE sci_cal
         IN  CalibrateFrom(at + 1, next, master_bias, master_dark, master_flat, mask_)

\* the frame multiplied by the gain in counts
MultiplyCounts(image, gain) ==
    [image EXCEPT !.data = [p \in 1..NPix |-> RMul(image.data[p], gain)]]

\* photocal.py:461, CCDData.multiply(gain * u.electron / u.adu): the data are
\* multiplied and so is the unit
Multiply(image, gain) ==
    [image EXCEPT !.data = [p \in 1..NPix |-> RMul(image.data[p], gain)],
                  !.unit = IF image.unit = "adu" THEN "electron" ELSE "electron/adu"]

\* str.replace(old, new) on a name cut into its parts
Replace(name, old, new) == [i \in 1..Len(name) |-> IF name[i] = old THEN new ELSE name[i]]

\* the header of the output with a tag of the calibration added
OutputHeaderTagged(header, unit) ==
    HeaderSet(HeaderSet(header, "BUNIT", unit), "ACQTYPE", "SCIENCE_CAL")

\* photocal.py:469-470: the header of the science frame takes the place of
\* the header of the calibrated frame, and CCDData.write records the unit
\* as BUNIT
OutputHeader(header, unit) == HeaderSet(header, "BUNIT", unit)

\* the pass of the loop is at statement at
ScienceAt(at) == ccd.routine = "science_loop" /\ ccd.at = at

\* photocal.py:450-452: a pass of the loop reads a science file with
\* unit='adu'; the masters are those of the night or None
ScienceRead ==
    /\ ccd = NoCall
    /\ \E science_image \in ScienceImages,
          master_bias \in BiasFrames \cup {NoCCD},
          master_dark \in {CCD(Pixels(100, 0, 1), 10), NoCCD},
          master_flat \in {CCD(Pixels(8, 4, 10), 0), NoCCD},
          mask_ \in {CCD([p \in 1..NPix |-> IF p = 1 THEN 1 ELSE 0], 0), NoCCD} :
         \E header \in ScienceHeaders(science_image.exptime) :
           ccd' = [routine |-> "science_loop", at |-> "calibrate",
                   sci_file |-> ScienceName,
                   sci |-> WithHeader(science_image, "adu", header),
                   master_bias |-> master_bias, master_dark |-> master_dark,
                   master_flat |-> master_flat, mask |-> mask_,
                   calibrated_science_image |-> NoImage,
                   calibrated |-> NoImage, converted |-> NoImage,
                   gain |-> NaN, readnoise |-> NaN, sigclip |-> 0,
                   steps |-> <<"read">>, raised |-> None, files |-> NoFiles]
    /\ UNCHANGED pipeline

\* photocal.py:454-457
ScienceCalibrate ==
    /\ ScienceAt("calibrate")
    /\ LET calibrated == CalibrateFrom(1, ccd.sci, ccd.master_bias, ccd.master_dark,
                                       ccd.master_flat, ccd.mask)
       IN  ccd' = [ccd EXCEPT !.calibrated_science_image = calibrated,
                              !.calibrated = calibrated,
                              !.steps = Append(@, "calibrate"),
                              !.at = "gain"]
    /\ UNCHANGED pipeline

\* photocal.py:459-461
ScienceGain ==
    /\ ScienceAt("gain")
    /\ LET gain == HeaderGet(ccd.sci.header, "GAIN", DefaultGain)
           converted == Multiply(ccd.calibrated_science_image, gain)
       IN  ccd' = [ccd EXCEPT !.gain = gain,
                              !.calibrated_science_image = converted,
                              !.converted = converted,
                              !.steps = Append(@, "gain"),
                              !.at = "cosmic"]
    /\ UNCHANGED pipeline

\* photocal.py:463-465
ScienceCosmicRays ==
    /\ ScienceAt("cosmic")
    /\ LET readnoise == HeaderGet(ccd.sci.header, "RDNOISE", DefaultReadNoise)
       IN  IF MissingUnit(ccd.calibrated_science_image)
           THEN ccd' = [ccd EXCEPT !.readnoise = readnoise, !.sigclip = SigClip,
                                   !.raised = "ValueError", !.at = "end"]
           ELSE \E crmask \in SUBSET (1..NPix) :
                  ccd' = [ccd EXCEPT
                            !.readnoise = readnoise, !.sigclip = SigClip,
                            !.calibrated_science_image = CosmicrayLacosmic(@, crmask),
                            !.steps = Append(@, "cosmic"),
                            !.at = "write"]
    /\ UNCHANGED pipeline

\* photocal.py:467-471: the name of the output is made from ORIGFILE, and a
\* header without ORIGFILE raises KeyError before anything is written
ScienceWrite ==
    /\ ScienceAt("write")
    /\ IF "ORIGFILE" \notin DOMAIN ccd.sci.header
       THEN ccd' = [ccd EXCEPT !.raised = "KeyError", !.at = "end"]
       ELSE LET output_filename ==
                    <<CalPath, Replace(ccd.sci.header["ORIGFILE"], ".fits", "_CAL.fits")>>
                output == [ccd.calibrated_science_image EXCEPT
                             !.header = OutputHeader(ccd.sci.header,
                                                     ccd.calibrated_science_image.unit)]
            IN  ccd' = [ccd EXCEPT !.calibrated_science_image = output,
                                   !.files = WriteFile(@, output_filename, output),
                                   !.steps = Append(@, "write"),
                                   !.at = "end"]
    /\ UNCHANGED pipeline

\* the pass of the loop is over, or the error has left main
ScienceEnd ==
    /\ ScienceAt("end")
    /\ ccd' = NoCall
    /\ UNCHANGED pipeline

\* ------------------------------------------------- convert_to_electrons
\* the largest number of images in the collection (test_utils.py:39-41)
MaxImages == 3

\* the gains of the test suite (test_utils.py:47, 66, 70, test_photocal.py:95)
ConvertGains == {Rat(-1, 1), Rat(0, 1), Rat(2, 1), Rat(5, 2)}

\* the images of the collections of the test suite (test_utils.py:40, 61)
CollectionImages == {WithHeader(CCD(Pixels(100, 0, 1), 10), "adu", NoFiles),
                     WithHeader(CCD(Pixels(1, 0, 1), 10), "adu", NoFiles)}

\* utils.py:31-32: the data times the gain, in electrons
ToElectrons(img, gain) ==
    [img EXCEPT !.data = [p \in 1..NPix |-> RMul(img.data[p], gain)],
                !.unit = "electron"]

\* the image of the collection converted where it is
ConvertedInPlace(imagecollection, i, img_electrons) ==
    [imagecollection EXCEPT ![i] = img_electrons]

\* utils.py:30: the image converted is a copy, the image of the collection
\* stays as it is
ConvertedCopy(imagecollection, i, img_electrons) == imagecollection

\* a call of convert_to_electrons (utils.py:6)
ConvertCall ==
    /\ ccd = NoCall
    /\ \E images \in SeqsUpTo(CollectionImages, MaxImages), gain \in ConvertGains :
         ccd' = [routine |-> "convert_to_electrons", at |-> "gain",
                 given |-> images, imagecollection |-> images, gain |-> gain,
                 i |-> 1, converted_images |-> <<>>, raised |-> None]
    /\ UNCHANGED pipeline

\* utils.py:23-24
ConvertCheckGain ==
    /\ ccd.routine = "convert_to_electrons" /\ ccd.at = "gain"
    /\ IF ~RLess(Rat(0, 1), ccd.gain)
       THEN ccd' = [ccd EXCEPT !.raised = "ValueError", !.at = "return"]
       ELSE ccd' = [ccd EXCEPT !.at = "loop"]
    /\ UNCHANGED pipeline

\* utils.py:29-33, one pass of the loop
ConvertImage ==
    /\ ccd.routine = "convert_to_electrons" /\ ccd.at = "loop"
    /\ ccd.i <= Len(ccd.imagecollection)
    /\ LET img_electrons == ToElectrons(ccd.imagecollection[ccd.i], ccd.gain)
       IN  ccd' = [ccd EXCEPT
                     !.imagecollection = ConvertedCopy(@, ccd.i, img_electrons),
                     !.converted_images = Append(@, img_electrons),
                     !.i = @ + 1]
    /\ UNCHANGED pipeline

\* utils.py:29, 35: the collection is exhausted
ConvertLoopEnd ==
    /\ ccd.routine = "convert_to_electrons" /\ ccd.at = "loop"
    /\ ccd.i > Len(ccd.imagecollection)
    /\ ccd' = [ccd EXCEPT !.at = "return"]
    /\ UNCHANGED pipeline

\* utils.py:24, 35: convert_to_electrons has raised or returned
ConvertReturn ==
    /\ ccd.routine = "convert_to_electrons" /\ ccd.at = "return"
    /\ ccd' = NoCall
    /\ UNCHANGED pipeline

\* main is not running; the routines are called on their own, as the tests do
InitCal ==
    /\ night = [d \in Dates |-> CHOOSE c \in PlainNights : TRUE]
    /\ disk = [d \in Dates |-> EmptyDisk]
    /\ pc = "idle"
    /\ force = FALSE
    /\ dates = <<>>
    /\ di = 0
    /\ loc = NoLocals
    /\ status = [d \in Dates |-> "none"]
    /\ touched = [d \in Dates |-> NoneTouched]
    /\ calls = NoCalls
    /\ exit = "none"
    /\ previous = "none"
    /\ ccd = NoCall

NextCal ==
    \/ CalibrateCall
    \/ BiasStep
    \/ DarkStep
    \/ FlatStep
    \/ MaskStep
    \/ CalibrateReturn
    \/ CombineDarksCall
    \/ CombineDarksRun
    \/ CombineDarksReturn
    \/ ImageCombineCall
    \/ ImageCombineRun
    \/ ImageCombineReturn
    \/ GenerateMaskCall
    \/ GenerateMaskExists
    \/ GenerateMaskWrite
    \/ GenerateMaskReturn
    \/ RemoveCosmicRaysCall
    \/ RemoveCosmicRaysRun
    \/ RemoveCosmicRaysReturn
    \/ ScienceRead
    \/ ScienceCalibrate
    \/ ScienceGain
    \/ ScienceCosmicRays
    \/ ScienceWrite
    \/ ScienceEnd
    \/ ConvertCall
    \/ ConvertCheckGain
    \/ ConvertImage
    \/ ConvertLoopEnd
    \/ ConvertReturn

SpecCal == InitCal /\ [][NextCal]_vars

\* ================================================================ claims
\* main is inside the processing of a night (photocal.py:326-475)
InNight == pc \in {"bias", "darks", "sdark", "flat", "mask", "sci"}

\* the master darks are settled (photocal.py:422 onwards)
PastDarks == pc \in {"flat", "mask", "sci"}

\* the calibrated frames this invocation has written for the current night
Calibrated == {disk[date].out[i] : i \in touched[date].out}

ScienceExposureTimes(n) == ExposureTimes(ScienceFiles(n))

\* the science directory has no darks, the flat directory has some
OnlyFlatDarks(n) == ScienceDarkFiles(n) = <<>> /\ FlatDarkFiles(n) # <<>>

\* the flat directory has no darks, the science directory has some
OnlyScienceDarks(n) == FlatDarkFiles(n) = <<>> /\ ScienceDarkFiles(n) # <<>>

\* C1: in a night whose science directory has no darks and whose flat
\* directory has some, the flat darks become the science darks exactly when a
\* science exposure time is also a flat-dark exposure time, and the science
\* frames are then corrected with the master dark of the flat darks; without
\* a common exposure time science dark correction is skipped and no science
\* frame is dark-corrected.
C1_FlatDarksIffMatch ==
    InNight /\ OnlyFlatDarks(night[date]) =>
        LET n == night[date]
            match == ScienceExposureTimes(n) \cap ExposureTimes(FlatDarkFiles(n)) # {}
        IN  /\ (loc.science_dark_files = FlatDarkFiles(n)) <=> match
            /\ loc.skip_science_dark_correction <=> ~match
            /\ match => \A c \in Calibrated : c.dark.from = "flat"
            /\ ~match => /\ loc.science_master_dark = NoFrame
                         /\ \A c \in Calibrated : c.dark = NoFrame

\* C1, witness: two science frames of which one matches the flat darks, and a
\* frame has been corrected with the flat directory's master dark
C1_Witness ==
    /\ pc = "sci"
    /\ OnlyFlatDarks(night[date])
    /\ ScienceExposureTimes(night[date]) = {10, 90}
    /\ ExposureTimes(FlatDarkFiles(night[date])) = {90}
    /\ \E c \in Calibrated : c.dark.from = "flat"

\* C2 as stated: science frames are dark-corrected only if an exposure time
\* of the dark frames used is a science exposure time, also for darks of the
\* science directory itself.
C2_DarkNeedsMatch ==
    InNight /\ (\E c \in Calibrated : c.dark # NoFrame) =>
        ExposureTimes(loc.science_dark_files) \cap ScienceExposureTimes(night[date]) # {}

\* C2 amended: science frames are dark-corrected only if the science
\* directory has darks of its own (whatever their exposure times) or an
\* exposure time of the flat directory's darks is a science exposure time.
C2_DarkNeedsOwnOrMatch ==
    InNight /\ (\E c \in Calibrated : c.dark # NoFrame) =>
        LET n == night[date]
        IN  \/ ScienceDarkFiles(n) # <<>>
            \/ ScienceExposureTimes(n) \cap ExposureTimes(FlatDarkFiles(n)) # {}

\* C2, witness: a science frame corrected with a master dark of the science
\* directory's own darks, none of which has a science exposure time
C2_Witness ==
    /\ pc = "sci"
    /\ ScienceDarkFiles(night[date]) # <<>>
    /\ ExposureTimes(ScienceDarkFiles(night[date])) \cap ScienceExposureTimes(night[date]) = {}
    /\ \E c \in Calibrated : c.dark.from = "sci"

\* C3: in a night whose flat directory has no darks and whose science
\* directory has some, the science darks become the darks of the flats only
\* if a flat exposure time is also a science-dark exposure time; without one
\* the flat dark list stays empty.
C3_ScienceDarksOnlyOnMatch ==
    InNight /\ OnlyScienceDarks(night[date]) =>
        LET n == night[date]
            match == ExposureTimes(FlatFiles(n)) \cap ExposureTimes(ScienceDarkFiles(n)) # {}
        IN  /\ loc.flat_dark_files \in {<<>>, ScienceDarkFiles(n)}
            /\ loc.flat_dark_files = ScienceDarkFiles(n) => match
            /\ ~match => loc.flat_dark_files = <<>> /\ loc.flat_master_dark = NoFrame

\* C3, witness: the science darks were substituted and combined for the flats
C3_Witness ==
    /\ PastDarks
    /\ OnlyScienceDarks(night[date])
    /\ loc.flat_dark_files = ScienceDarkFiles(night[date])
    /\ loc.flat_master_dark.from = "sci"

\* C4: bias correction is selected exactly when science dark correction is
\* skipped and one of the two directories has bias files; the science
\* directory's bias files are used whenever it has any, the flat directory's
\* only when the science directory has none; the master bias is made of them.
C4_BiasFallback ==
    InNight =>
        LET n == night[date]
        IN  /\ loc.use_bias_correction <=>
                  /\ loc.skip_science_dark_correction
                  /\ (ScienceBiasFiles(n) # <<>> \/ FlatBiasFiles(n) # <<>>)
            /\ loc.use_bias_correction /\ ScienceBiasFiles(n) # <<>> =>
                  /\ loc.bias_files_for_science = ScienceBiasFiles(n)
                  /\ loc.bias_dir_for_science = "sci"
            /\ loc.use_bias_correction /\ ScienceBiasFiles(n) = <<>> =>
                  /\ loc.bias_files_for_science = FlatBiasFiles(n)
                  /\ loc.bias_dir_for_science = "flat"
            /\ ~loc.use_bias_correction => loc.science_master_bias = NoFrame
            /\ pc # "bias" /\ loc.use_bias_correction =>
                  loc.science_master_bias.from = loc.bias_dir_for_science

\* C4, witness: no darks and bias files in both directories, and a science
\* frame corrected with the master bias of the science directory
C4_Witness ==
    /\ pc = "sci"
    /\ loc.skip_science_dark_correction
    /\ ScienceBiasFiles(night[date]) # <<>> /\ FlatBiasFiles(night[date]) # <<>>
    /\ \E c \in Calibrated : c.bias.from = "sci"

\* the night main is processing, or the one it was aborted in
Current == di \in 1..Len(dates) /\ status[dates[di]] \in {"started", "failed"}

\* a night of science frames and flats with no dark and no bias file at all
NoDarkNoBias(n) ==
    /\ n.sciDir /\ ScienceFiles(n) # <<>>
    /\ n.flatDir /\ FlatFiles(n) # <<>>
    /\ ScienceDarkFiles(n) = <<>> /\ FlatDarkFiles(n) = <<>>
    /\ ScienceBiasFiles(n) = <<>> /\ FlatBiasFiles(n) = <<>>

\* C5 as stated: a night of science frames and flats without any dark or
\* bias file is processed to its end with flat correction only: main is not
\* aborted in it, and its frames are corrected with the master flat and the
\* mask, without bias and without dark.
C5_FlatOnlyCompletes ==
    \A d \in Dates :
        NoDarkNoBias(night[d]) =>
            /\ status[d] # "failed"
            /\ \A i \in touched[d].out :
                   /\ disk[d].out[i].flat # NoFrame
                   /\ disk[d].out[i].bias = NoFrame /\ disk[d].out[i].dark = NoFrame

\* C6: a master flat and a mask are built or loaded, and handed to the
\* science calibration, only if the flat directory exists; without it
\* generate_flat and generate_mask are not called and every science frame is
\* calibrated without flat and without mask.
C6_FlatNeedsFlatDir ==
    Current =>
        LET n == night[date]
        IN  /\ (\/ loc.flat_master # NoFrame \/ loc.mask # NoFrame
                \/ calls.generate_flat > 0 \/ calls.generate_mask > 0) => n.flatDir
            /\ ~n.flatDir => \A c \in Calibrated : c.flat = NoFrame /\ c.mask = NoFrame
            /\ n.flatDir => \A c \in Calibrated : c.flat # NoFrame /\ c.mask # NoFrame

\* C6, witness: a science frame calibrated in a night without flat directory
C6_Witness ==
    /\ pc = "sci"
    /\ ~night[date].flatDir
    /\ \E c \in Calibrated : c.flat = NoFrame /\ c.mask = NoFrame /\ c.dark # NoFrame

\* C7: when the science frames and the flats use the same list of dark files,
\* combine_darks is called at most once in the night and the flat master dark
\* and the science master dark are the same frame.
C7_SharedDarkOnce ==
    Current /\ loc.flat_dark_files # <<>> /\ loc.science_dark_files = loc.flat_dark_files =>
        /\ calls.combine_darks <= 1
        /\ PastDarks => /\ loc.science_master_dark # NoFrame
                        /\ loc.flat_master_dark = loc.science_master_dark

\* C7, witness: the shared master dark was combined once, for a night whose
\* flat directory lacks darks, and a science frame was corrected with it
C7_Witness ==
    /\ pc = "sci"
    /\ OnlyScienceDarks(night[date])
    /\ loc.science_dark_files = loc.flat_dark_files
    /\ calls.combine_darks = 1
    /\ \E c \in Calibrated : c.dark = loc.flat_master_dark /\ c.dark # NoFrame

\* the science directory is missing or holds no science frame
NoScience(n) == ~n.sciDir \/ ScienceFiles(n) = <<>>

\* C8: a night without science directory or without science frames is
\* skipped: its output directory is never made and nothing is ever written
\* for it, the loop goes on to the next date, and an invocation that ends
\* normally has dealt with every later date.
C8_NoScienceSkipped ==
    \A d \in Dates :
        NoScience(night[d]) =>
            /\ disk[d] = EmptyDisk
            /\ touched[d] = NoneTouched
            /\ status[d] \in {"none", "no_science_dir", "no_science_files"}
            /\ status[d] # "none" =>
                  /\ di > d
                  /\ exit \in {"running", "ok"} \/ \E e \in Dates : e > d /\ status[e] = "failed"
                  /\ exit = "ok" => \A e \in Dates : e > d => status[e] # "none"

\* C8, witness: the first night was skipped for want of science frames and
\* the next night has been processed
C8_Witness ==
    /\ NoScience(night[1])
    /\ status[1] \in {"no_science_dir", "no_science_files"}
    /\ status[2] = "processed"

\* C9: a night whose output directory holds a calibrated science file is
\* skipped when force is not set: nothing is written for it, and a night
\* that is processed without force had no calibrated file when it was begun
\* (every calibrated file it has was written by this invocation).
C9_CalibratedNightSkipped ==
    \A d \in Dates :
        /\ status[d] = "calibrated" =>
              /\ ~force
              /\ touched[d] = NoneTouched
              /\ \E i \in 1..Len(night[d].science) : disk[d].out[i].written
        /\ ~force /\ status[d] \in {"started", "processed", "failed"} =>
              \A i \in 1..Len(night[d].science) :
                  disk[d].out[i].written => i \in touched[d].out

\* C9, witness: a night with one of its two science frames calibrated by an
\* earlier invocation has been skipped
C9_Witness ==
    \E d \in Dates :
        /\ status[d] = "calibrated"
        /\ disk[d].out[1].written
        /\ Len(night[d].science) = 2 /\ ~disk[d].out[2].written

MasterFiles == {"MASTERBIAS", "MASTERDARK", "MASTERDARK_FLAT", "MASTERFLAT", "MASK"}

\* file f of the output directory was there before this invocation came to
\* the night, and force is not set
Cached(f) ==
    /\ InNight /\ ~force
    /\ Exists(disk[date][f])
    /\ f \notin touched[date].masters

\* file f is not written in this step
Kept(f) == disk'[date][f] = disk[date][f] /\ f \notin touched'[date].masters

\* C10 as stated: without force, every master file that exists in the output
\* directory is kept as it is, whatever other files exist.
C10_EveryMasterKept ==
    [][\A f \in MasterFiles : Cached(f) => Kept(f)]_vars

\* C10 amended: without force, an existing master bias, science master dark
\* or flat master dark file is neither rebuilt nor overwritten and the frame
\* used is the one read from the file; the master flat and the mask are
\* reused only together: when both files exist neither is regenerated or
\* overwritten and both are read from disk.
C10_MastersKept ==
    [][/\ \A f \in {"MASTERBIAS", "MASTERDARK", "MASTERDARK_FLAT"} : Cached(f) => Kept(f)
       /\ Cached("MASTERFLAT") /\ Cached("MASK") =>
              /\ Kept("MASTERFLAT") /\ Kept("MASK")
              /\ calls'.generate_flat <= calls.generate_flat
              /\ calls'.generate_mask <= calls.generate_mask
              /\ pc = "flat" /\ pc' = "sci" /\ ~loc.skip_flat_correction =>
                     /\ loc'.flat_master = disk[date].MASTERFLAT
                     /\ loc'.mask = disk[date].MASK
       /\ Cached("MASTERBIAS") =>
              /\ calls'.combine_bias <= calls.combine_bias
              /\ pc = "bias" /\ pc' = "darks" /\ UseBias =>
                     loc'.science_master_bias = disk[date].MASTERBIAS
       /\ Cached("MASTERDARK") /\ pc \in {"darks", "sdark"} /\ pc' = "flat"
          /\ ~loc.skip_science_dark_correction /\ loc.science_dark_files # <<>> =>
              loc'.science_master_dark = disk[date].MASTERDARK
      ]_vars

\* C10, witness: without force, the master dark, the master flat and the
\* mask of an earlier invocation are in use and none of them was written again
C10_Witness ==
    /\ pc = "sci" /\ ~force
    /\ loc.flat_master # NoFrame /\ loc.mask # NoFrame /\ loc.science_master_dark # NoFrame
    /\ touched[date].masters = {}
    /\ calls = NoCalls

\* the running invocation follows one that ended normally, and has no --force
Rerun == pc # "idle" /\ ~force /\ previous = "ok"

\* C11: an invocation without force that follows an invocation that ran to
\* its end combines no master frame, and writes no file: every file of every
\* night stays as the first invocation left it, and every night is skipped.
C11_RerunChangesNothing ==
    [][Rerun =>
          /\ disk' = disk
          /\ calls' = NoCalls
          /\ \A d \in Dates : touched'[d] = NoneTouched
          /\ pc' \in {"loop", "idle"}
          /\ \A d \in Dates :
                 status'[d] \in {"none", "calibrated", "no_science_dir", "no_science_files"}
      ]_vars

\* C11, witness: the second invocation has ended, having skipped a night for
\* which the first one left master frames and calibrated frames
C11_Witness ==
    /\ previous = "ok" /\ ~force /\ exit = "ok"
    /\ \E d \in Dates :
          /\ status[d] = "calibrated"
          /\ Exists(disk[d].MASTERDARK) /\ Exists(disk[d].MASTERFLAT)
          /\ \A i \in 1..Len(night[d].science) : disk[d].out[i].written

\* night d has a calibrated file this invocation did not write
HasEarlierCalibration(d) ==
    \E i \in 1..Len(night[d].science) :
        disk[d].out[i].written /\ i \notin touched[d].out

\* C12: with --force no night is skipped for being calibrated already: a
\* night with calibrated files of an earlier invocation is processed again
\* (and does not fail); every master frame in use was combined or generated
\* by this invocation and written to its file, none was loaded; and a
\* processed night has the calibrated file of every science frame rewritten.
C12_ForceRebuilds ==
    force =>
        /\ \A d \in Dates :
              /\ status[d] # "calibrated"
              /\ HasEarlierCalibration(d) => status[d] \in {"none", "started"}
              /\ status[d] = "processed" =>
                     touched[d].out = 1..Len(night[d].science)
        /\ InNight =>
              /\ loc.science_master_bias # NoFrame =>
                     "MASTERBIAS" \in touched[date].masters /\ calls.combine_bias = 1
              /\ loc.science_master_dark # NoFrame =>
                     "MASTERDARK" \in touched[date].masters /\ calls.combine_darks >= 1
              /\ loc.flat_master_dark # NoFrame =>
                     "MASTERDARK_FLAT" \in touched[date].masters /\ calls.combine_darks >= 1
              /\ loc.flat_master # NoFrame =>
                     "MASTERFLAT" \in touched[date].masters /\ calls.generate_flat = 1
              /\ loc.mask # NoFrame =>
                     "MASK" \in touched[date].masters /\ calls.generate_mask = 1
              /\ pc # "bias" /\ UseBias => loc.science_master_bias # NoFrame
              /\ PastDarks /\ ~loc.skip_science_dark_correction /\ loc.science_dark_files # <<>> =>
                     loc.science_master_dark # NoFrame
              /\ PastDarks /\ loc.flat_dark_files # <<>> => loc.flat_master_dark # NoFrame
              /\ pc = "sci" /\ ~loc.skip_flat_correction =>
                     loc.flat_master # NoFrame /\ loc.mask # NoFrame

\* C12, witness: after an invocation that ran to its end, an invocation with
\* --force has processed a night again, rebuilding its master dark, master
\* flat and mask and rewriting both of its calibrated frames
C12_Witness ==
    /\ force /\ previous = "ok"
    /\ \E d \in Dates :
          /\ status[d] = "processed"
          /\ Len(night[d].science) = 2 /\ touched[d].out = {1, 2}
          /\ {"MASTERDARK", "MASTERFLAT", "MASK"} \subseteq touched[d].masters

\* C13 as stated: an error raised in a night ends that night only: main goes
\* on with the later dates, and an invocation in which a night failed still
\* ends normally with every later date dealt with.
C13_NightErrorsCaught ==
    \A d \in Dates :
        status[d] = "failed" =>
            /\ exit \in {"running", "ok"}
            /\ pc = "idle" => \A e \in Dates : e > d => status[e] # "none"

\* science frames and darks in the science directory, all of one exposure
\* time, no bias file and no flat directory
ScienceAndDarkOnly(n) ==
    /\ n.sciDir /\ ~n.flatDir
    /\ ScienceFiles(n) # <<>> /\ ScienceDarkFiles(n) # <<>>
    /\ ScienceBiasFiles(n) = <<>>
    /\ Cardinality(ScienceExposureTimes(n)) = 1
    /\ ExposureTimes(ScienceDarkFiles(n)) = ScienceExposureTimes(n)

\* C15: for a night with science frames and darks of one exposure time in the
\* science directory, no bias file and no flat directory, the plan is dark
\* correction with the science directory's darks, no bias, no flat and no
\* mask; the night does not fail, and every calibrated file it ever has,
\* whichever invocation wrote it, is the frame corrected with the master dark
\* of those darks alone.
C15_ScienceDarkOnlyPlan ==
    \A d \in Dates :
        ScienceAndDarkOnly(night[d]) =>
            LET n == night[d]
                master_dark == Frame("MASTERDARK", "sci", n.sciDark[1])
            IN  /\ status[d] # "failed"
                /\ \A i \in 1..Len(n.science) :
                       disk[d].out[i].written =>
                           disk[d].out[i] = CalibrateScienceImage(NoFrame, master_dark, NoFrame, NoFrame)
                /\ InNight /\ date = d =>
                       /\ ~loc.skip_science_dark_correction
                       /\ loc.science_dark_files = ScienceDarkFiles(n)
                       /\ ~loc.use_bias_correction /\ loc.science_master_bias = NoFrame
                       /\ loc.skip_flat_correction
                       /\ loc.flat_master = NoFrame /\ loc.mask = NoFrame
                       /\ calls.combine_bias = 0 /\ calls.generate_flat = 0
                       /\ calls.generate_mask = 0

\* C15, witness: such a night, with two science frames and two darks, has been
\* processed and both frames are dark-corrected
C15_Witness ==
    \E d \in Dates :
        /\ ScienceAndDarkOnly(night[d])
        /\ Len(night[d].science) = 2 /\ Len(night[d].sciDark) = 2
        /\ status[d] = "processed"
        /\ disk[d].out[1].dark.from = "sci" /\ disk[d].out[2].dark.from = "sci"

\* ------------------------------------------- claims about calibration.py
\* C14: combine_darks on a stack that is not empty raises ValueError exactly
\* when two of its frames differ in EXPTIME; otherwise it returns a master
\* dark with ACQTYPE MASTERDARK.
C14_RaisesIffDistinctExposures ==
    ccd.routine = "combine_darks" /\ ccd.at = "return" =>
        LET differ == \E i, j \in 1..Len(ccd.dark_images) :
                          ccd.dark_images[i].exp # ccd.dark_images[j].exp
        IN  /\ (ccd.raised = "ValueError") <=> differ
            /\ differ => ccd.master_dark = NoFrame
            /\ ~differ => /\ ccd.raised = None
                          /\ ccd.master_dark.acqtype = "MASTERDARK"
                          /\ ccd.master_dark.exptime = ccd.dark_images[1].exp

\* C14, witness: the stack [10, 90, 10] of the test suite has been refused
C14_Witness ==
    /\ ccd.routine = "combine_darks" /\ ccd.at = "return"
    /\ [i \in 1..Len(ccd.dark_images) |-> ccd.dark_images[i].exp] = <<10, 90, 10>>
    /\ ccd.raised = "ValueError"

\* calibrate_science_image is being executed
InCalibrate == ccd.routine = "calibrate_science_image"

\* the number of statements of calibrate_science_image executed so far
StepsDone == ccd.at - 1

\* sci_cal after the k-th statement; before the first it is the science image
\* as it was passed, which has no mask (ScienceImages)
AfterStep(k) == IF k = 0 THEN [ccd.science_image EXCEPT !.mask = NoMask] ELSE ccd.after[k]

\* C16: calibrate_science_image goes through bias subtraction, dark
\* subtraction, flat division and mask attachment in this order; a step is
\* applied exactly when its master frame is supplied, a step whose frame is
\* absent leaves sci_cal as the step before produced it, and no flag array is
\* attached before the three numeric corrections are done.
C16_StepsInOrder ==
    InCalibrate =>
        LET order == <<"bias", "dark", "flat", "mask">>
            supplied == [bias |-> ccd.master_bias # NoCCD, dark |-> ccd.master_dark # NoCCD,
                         flat |-> ccd.master_flat # NoCCD, mask |-> ccd.mask # NoCCD]
            Supplied(step) == supplied[step]
        IN  /\ ccd.steps = SelectSeq(SubSeq(order, 1, StepsDone), Supplied)
            /\ Len(ccd.after) = StepsDone
            /\ ccd.sci_cal = AfterStep(StepsDone)
            /\ \A k \in 1..StepsDone :
                   /\ ~supplied[order[k]] => AfterStep(k) = AfterStep(k - 1)
                   /\ k < 4 => AfterStep(k).mask = NoMask
            /\ StepsDone = 4 /\ supplied.mask => ccd.sci_cal.mask # NoMask

\* C16, witness: all four frames were supplied and all four steps are done
C16_Witness ==
    /\ InCalibrate /\ StepsDone = 4
    /\ ccd.steps = <<"bias", "dark", "flat", "mask">>
    /\ ccd.master_flat.data[1] # ccd.master_flat.data[NPix]

\* every pixel of the frame has the same value
Constant(frame) == \A p \in 1..NPix : frame.data[p] = frame.data[1]

\* C17: for a constant science frame and a master dark of the same exposure
\* time, without flat, calibrate_science_image returns science - bias - dark
\* at every pixel (science - dark when no bias is supplied).
C17_ExactSubtraction ==
    /\ InCalibrate /\ StepsDone = 4
    /\ ccd.master_flat = NoCCD /\ ccd.master_dark # NoCCD
    /\ ccd.master_dark.exptime = ccd.science_image.exptime
    /\ Constant(ccd.science_image)
    => \A p \in 1..NPix :
           LET science == ccd.science_image.data[p].num
               bias == IF ccd.master_bias = NoCCD THEN 0 ELSE ccd.master_bias.data[p].num
               dark == ccd.master_dark.data[p].num
           IN  ccd.sci_cal.data[p] = [num |-> science - bias - dark, den |-> 1]

\* C17, witness: science 1000, bias 100 and dark 150 of the same exposure
\* time have given 750
C17_Witness ==
    /\ InCalibrate /\ StepsDone = 4
    /\ ccd.master_flat = NoCCD
    /\ ccd.science_image = CCD(Pixels(1000, 0, 1), 90)
    /\ ccd.master_bias = CCD(Pixels(100, 0, 1), 0)
    /\ ccd.master_dark = CCD(Pixels(150, 0, 1), 90)
    /\ \A p \in 1..NPix : ccd.sci_cal.data[p] = [num |-> 750, den |-> 1]

C19_DarkScaledByExposure ==
    InCalibrate /\ StepsDone >= 2 /\ ccd.master_dark # NoCCD =>
        \A p \in 1..NPix :
            RSub(AfterStep(1).data[p], AfterStep(2).data[p])
                = RMul(ccd.master_dark.data[p],
                       Rat(ccd.science_image.exptime, ccd.master_dark.exptime))

\* C20: attaching the mask leaves every pixel value as the numeric
\* corrections produced it, and the flag of a pixel is true exactly when the
\* supplied mask is not zero there.
C20_MaskKeepsPixels ==
    InCalibrate /\ StepsDone = 4 /\ ccd.mask # NoCCD =>
        /\ ccd.sci_cal.data = AfterStep(3).data
        /\ ccd.sci_cal.exptime = AfterStep(3).exptime
        /\ DOMAIN ccd.sci_cal.mask = 1..NPix
        /\ \A p \in 1..NPix : ccd.sci_cal.mask[p] <=> ccd.mask.data[p] # 0

\* C20, witness: a mask with the value 2 at the last pixel has flagged that
\* pixel and no other, on a frame that went through the numeric corrections
C20_Witness ==
    /\ InCalibrate /\ StepsDone = 4
    /\ ccd.mask.data = [p \in 1..NPix |-> IF p = NPix THEN 2 ELSE 0]
    /\ ccd.sci_cal.mask = [p \in 1..NPix |-> p = NPix]
    /\ ccd.master_dark # NoCCD /\ ccd.master_flat # NoCCD


\* image_combine has run and is about to return or to raise
Combined == ccd.routine = "image_combine" /\ ccd.at = "return"

\* the frame with the outlier (test_calibration.py:219-222)
OutlierFrame == CCD([p \in 1..NPix |-> IF p = 1 THEN Rat(100, 1) ELSE Rat(10, 1)], 10)

\* the stack is made of one frame with the outlier and of equal frames of 10
\* and is combined with sigma clipping enabled
OutlierStack(images) ==
    /\ ccd.sigma_clip
    /\ Len(images) >= 2
    /\ Cardinality({i \in 1..Len(images) : images[i] = OutlierFrame}) = 1
    /\ \A i \in 1..Len(images) :
         images[i] # OutlierFrame => images[i] = CCD(Pixels(10, 0, 1), 10)

\* C23: image_combine on the empty list raises and returns no frame; on a
\* list of one frame it returns that frame's pixel values unchanged
C23_EmptyFailsSingleUnchanged ==
    Combined =>
        /\ ccd.images = <<>> => ccd.raised # None /\ ccd.combined = NoCCD
        /\ Len(ccd.images) = 1 =>
              ccd.raised = None /\ ccd.combined.data = ccd.images[1].data

C23_Witness ==
    /\ Combined /\ Len(ccd.images) = 1 /\ ccd.sigma_clip /\ ccd.sigma = 3
    /\ ccd.combined.data = Pixels(50, 0, 1)

C23_WitnessEmpty == Combined /\ ccd.images = <<>> /\ ccd.raised = "IndexError"

C25_OutlierExcluded ==
    (Combined /\ OutlierStack(ccd.images)) => ccd.combined.data[1] = Rat(10, 1)

\* C25 amended: with N frames of which N - 1 are equal at the pixel, the
\* average excludes the outlier exactly when N - 1 > sigma * sigma, and is the
\* plain mean of all N values otherwise; the median is the common value from
\* three frames on
C25_OutlierExcludedInLargeStacks ==
    (Combined /\ OutlierStack(ccd.images)) =>
        LET N == Len(ccd.images)
        IN  /\ ccd.method = "average" /\ N - 1 > ccd.sigma * ccd.sigma
                 => ccd.combined.data[1] = Rat(10, 1)
            /\ ccd.method = "average" /\ N - 1 <= ccd.sigma * ccd.sigma
                 => ccd.combined.data[1] = Rat(10 * (N - 1) + 100, N)
            /\ ccd.method = "median" /\ N >= 3 => ccd.combined.data[1] = Rat(10, 1)
            /\ \A p \in 2..NPix : ccd.combined.data[p] = Rat(10, 1)

C25_Witness ==
    /\ Combined /\ OutlierStack(ccd.images) /\ ccd.method = "average"
    /\ Len(ccd.images) = 5 /\ ccd.sigma = 1
    /\ ccd.combined.data[1] = Rat(10, 1)


\* generate_mask has run and is about to return or to end the process
MaskGenerated == ccd.routine = "generate_mask" /\ ccd.at = "return"

\* C26: generate_mask on a directory without the master flat ends the process
\* and writes no mask file; with the master flat it returns a mask of 0s and
\* 1s tagged ACQTYPE = MASK and that mask is the file {night}_MASK
C26_MaskNeedsMasterFlat ==
    MaskGenerated =>
        LET flat_path == PathOf(ccd.flat_directory, "_MASTERFLAT.fits")
            mask_path == <<ccd.flat_directory, DateOf(ccd.flat_directory), "_MASK.fits">>
        IN  /\ flat_path \notin DOMAIN ccd.given =>
                  /\ ccd.raised = "SystemExit"
                  /\ ccd.files = ccd.given
                  /\ ccd.mask_as_ccd.ACQTYPE = None
            /\ flat_path \in DOMAIN ccd.given =>
                  /\ ccd.raised = None
                  /\ \A p \in 1..NPix : ccd.mask_as_ccd.data[p] \in {0, 1}
                  /\ ccd.mask_as_ccd.ACQTYPE = "MASK"
                  /\ DOMAIN ccd.files = DOMAIN ccd.given \cup {mask_path}
                  /\ ccd.files[mask_path] = ccd.mask_as_ccd
                  /\ ccd.files[flat_path] = ccd.given[flat_path]

C26_Witness ==
    /\ MaskGenerated /\ ccd.raised = None
    /\ ccd.flat_directory = <<"2012", "06", "04", "CAMS_SKYFLAT">>
    /\ ccd.mask_as_ccd.data = MaskAsUint8({1})
    /\ ccd.files[<<ccd.flat_directory, <<"2012", "06", "04">>, "_MASK.fits">>].ACQTYPE = "MASK"

C26_WitnessMissing ==
    /\ MaskGenerated /\ ccd.raised = "SystemExit"
    /\ PathOf(ccd.flat_directory, "_MASK.fits") \in DOMAIN ccd.given


\* a pass of the science loop is under way
InScienceLoop == ccd.routine = "science_loop"

\* the pass has written its output
ScienceWritten == InScienceLoop /\ ccd.at = "end" /\ ccd.raised = None

\* the pass has gone through the step
ScienceDone(step) == \E i \in 1..Len(ccd.steps) : ccd.steps[i] = step

\* s is the beginning of t
IsPrefix(s, t) == Len(s) <= Len(t) /\ s = SubSeq(t, 1, Len(s))

\* C21: in every pass of the science loop the gain is applied after
\* calibrate_science_image and before the cosmic-ray rejection, the data are
\* multiplied by the frame's GAIN, or by 2.0 without GAIN, the rejection is
\* given the frame's RDNOISE, or 9.0 without RDNOISE, and the result is in
\* electrons
C21_GainBetweenCalibrationAndCosmicRays ==
    InScienceLoop =>
        /\ IsPrefix(ccd.steps, <<"read", "calibrate", "gain", "cosmic", "write">>)
        /\ ScienceDone("gain") =>
              /\ ccd.gain = IF "GAIN" \in DOMAIN ccd.sci.header
                            THEN ccd.sci.header["GAIN"] ELSE Rat(2, 1)
              /\ \A p \in 1..NPix :
                    ccd.converted.data[p] = RMul(ccd.calibrated.data[p], ccd.gain)
              /\ ccd.converted.unit = "electron"
        /\ ScienceDone("cosmic") =>
              ccd.readnoise = IF "RDNOISE" \in DOMAIN ccd.sci.header
                              THEN ccd.sci.header["RDNOISE"] ELSE Rat(9, 1)
        /\ ScienceWritten => ccd.calibrated_science_image.unit = "electron"

C21_Witness ==
    /\ ScienceWritten
    /\ "GAIN" \notin DOMAIN ccd.sci.header /\ "RDNOISE" \notin DOMAIN ccd.sci.header
    /\ ccd.master_dark # NoCCD /\ ccd.master_bias = NoCCD /\ ccd.master_flat = NoCCD
    /\ ccd.sci.data = Pixels(1000, 0, 1)
    /\ ccd.converted.data = Pixels(1800, 0, 1)
    /\ ccd.readnoise = Rat(9, 1)
    /\ ccd.steps = <<"read", "calibrate", "gain", "cosmic", "write">>

C21_WitnessGain ==
    /\ ScienceWritten /\ ccd.gain = Rat(5, 2) /\ ccd.readnoise = Rat(5, 1)
    /\ ccd.master_dark = NoCCD /\ ccd.master_bias = NoCCD /\ ccd.master_flat = NoCCD
    /\ ccd.sci.data = Pixels(1000, 0, 1)
    /\ ccd.converted.data = Pixels(2500, 0, 1)

CosmicRaysRemoved == ccd.routine = "remove_cosmic_rays" /\ ccd.at = "return"

\* C27: remove_cosmic_rays raises the missing-unit error exactly for a frame
\* with no BUNIT header, no bunit header and no unit attribute, and then no
\* cleaned image is produced; a frame with any of the three is cleaned
C27_MissingUnitRaises ==
    CosmicRaysRemoved =>
        LET tagged == \/ "BUNIT" \in DOMAIN ccd.image.header
                      \/ ccd.image.unit # None
        IN  /\ ~tagged => ccd.raised = "ValueError" /\ ccd.cleaned_image = NoImage
            /\ tagged => ccd.raised = None /\ ccd.cleaned_image # NoImage

C27_Witness ==
    /\ CosmicRaysRemoved /\ ccd.image.unit = None /\ ccd.image.header = NoFiles
    /\ ccd.raised = "ValueError"

C27_WitnessAccepted ==
    /\ CosmicRaysRemoved /\ ccd.image.unit = "electron" /\ ccd.image.header = NoFiles
    /\ ccd.raised = None /\ ccd.cleaned_image.mask = [p \in 1..NPix |-> p = 1]


\* convert_to_electrons is running
Converting == ccd.routine = "convert_to_electrons"

\* C29: convert_to_electrons raises for every gain <= 0 before any image is
\* converted; for a gain > 0 it returns one image for each image of the
\* collection, with the data times the gain and the unit electron, and the
\* images of the collection are as they were
C29_ConvertToElectrons ==
    Converting =>
        /\ ccd.imagecollection = ccd.given
        /\ ccd.gain.num <= 0 => ccd.converted_images = <<>>
        /\ ccd.at = "return" =>
              IF ccd.gain.num <= 0
              THEN ccd.raised = "ValueError"
              ELSE /\ ccd.raised = None
                   /\ Len(ccd.converted_images) = Len(ccd.given)
                   /\ \A i \in 1..Len(ccd.given) :
                        /\ \A p \in 1..NPix :
                             ccd.converted_images[i].data[p]
                                = RMul(ccd.given[i].data[p], ccd.gain)
                        /\ ccd.converted_images[i].unit = "electron"

C29_Witness ==
    /\ Converting /\ ccd.at = "return" /\ ccd.gain = Rat(2, 1)
    /\ Len(ccd.given) = 3
    /\ \A i \in 1..3 : /\ ccd.given[i].data = Pixels(100, 0, 1)
                       /\ ccd.converted_images[i].data = Pixels(200, 0, 1)

C29_WitnessInvalid ==
    /\ Converting /\ ccd.at = "return" /\ ccd.gain = Rat(0, 1)
    /\ Len(ccd.given) = 1 /\ ccd.raised = "ValueError"


\* C28: a file whose header cannot be read is passed over when the exposure
\* times are collected, and the processing of its night is not aborted by
\* that file: no night with such a file fails on reading it
C28_UnreadableFileNotFatal ==
    \A d \in Dates :
        (night[d].unreadable # 0 /\ status[d] = "failed") => exit # "OSError"


\* C30: when an invocation was interrupted in the science loop of a night
\* after a calibrated file was written, an invocation without force that
\* follows it and runs to its end leaves a calibrated file for every science
\* frame of that night
C30_ResumeCompletesNight ==
    (exit = "ok" /\ ~force /\ previous = "killed") =>
        \A d \in Dates :
            (\E i \in 1..Len(night[d].science) : disk[d].out[i].written) =>
                \A i \in 1..Len(night[d].science) : disk[d].out[i].written


\* C31: when the resolution of a night selects dark correction for the
\* science frames, the science master dark is obtained and the frames are
\* dark-subtracted, also when the substituted darks have several exposure
\* times of which one matches: such a night does not fail on combining its
\* darks
C31_SelectedDarkIsObtained ==
    \A d \in Dates :
        ~ScienceDarkPlan(night[d]).skip_science_dark_correction =>
            ~(status[d] = "failed" /\ exit = "ValueError")


\* C32: in every call of calibrate_science_image made by main the master
\* bias and the science master dark are not both given: a science frame is
\* bias-corrected only in a night whose science dark correction is skipped
C32_BiasOrDark ==
    InNight =>
        /\ ~(loc.science_master_bias # NoFrame /\ loc.science_master_dark # NoFrame)
        /\ \A c \in Calibrated :
             /\ ~(c.bias # NoFrame /\ c.dark # NoFrame)
             /\ c.bias # NoFrame => loc.skip_science_dark_correction

C32_Witness ==
    /\ pc = "sci"
    /\ FlatDarkFiles(night[date]) # <<>> /\ ScienceBiasFiles(night[date]) # <<>>
    /\ \E c \in Calibrated : c.bias # NoFrame /\ c.dark = NoFrame

C32_WitnessDark ==
    /\ pc = "sci"
    /\ ScienceBiasFiles(night[date]) # <<>>
    /\ \E c \in Calibrated : c.bias = NoFrame /\ c.dark # NoFrame


\* C33: calibrate_science_image never changes the frame it is given: at every
\* step of a call, whatever masters and mask are given, the data and the mask
\* of the input frame stay what they were, and the frame that is returned is
\* not the object that was passed in
C33_InputNeverMutated ==
    [][(ccd.routine = "calibrate_science_image"
            /\ ccd'.routine = "calibrate_science_image") =>
          /\ ccd'.science_image = ccd.science_image
          /\ ccd'.at > Len(Steps) => ~ccd'.same]_vars

\* the input frame keeps its data and its exposure time in every call
C33_InputDataKept ==
    [][(ccd.routine = "calibrate_science_image"
            /\ ccd'.routine = "calibrate_science_image") =>
          /\ ccd'.science_image.data = ccd.science_image.data
          /\ ccd'.science_image.exptime = ccd.science_image.exptime]_vars

\* a call with a mask and no master has flagged the frame it was given
C33_InputMasked ==
    /\ ccd.routine = "calibrate_science_image"
    /\ ccd.at > Len(Steps)
    /\ ccd.steps = <<"mask">>
    /\ ccd.science_image.mask # NoMask

\* a call without masters and without mask returns the frame it was given
C33_InputReturned ==
    /\ ccd.routine = "calibrate_science_image"
    /\ ccd.at > Len(Steps)
    /\ ccd.steps = <<>>
    /\ ccd.same


\* the fields of the local variables that make the plan of a night
Plan(l) ==
    [skip_flat_correction |-> l.skip_flat_correction,
     skip_science_dark_correction |-> l.skip_science_dark_correction,
     shared_dark_files |-> l.shared_dark_files,
     science_dark_files |-> l.science_dark_files,
     flat_dark_files |-> l.flat_dark_files,
     use_bias_correction |-> l.use_bias_correction,
     bias_files_for_science |-> l.bias_files_for_science,
     bias_dir_for_science |-> l.bias_dir_for_science]

\* the plan in use is the one the files of the current night give, and every
\* master frame in use is a file of the output directory of the current night
OwnPlanAndMasters ==
    InNight =>
        /\ Plan(loc) = Plan(Resolve(night[date]))
        /\ loc.science_master_bias \in {NoFrame, disk[date].MASTERBIAS}
        /\ loc.science_master_dark \in {NoFrame, disk[date].MASTERDARK,
                                        disk[date].MASTERDARK_FLAT}
        /\ loc.flat_master_dark \in {NoFrame, disk[date].MASTERDARK,
                                     disk[date].MASTERDARK_FLAT}
        /\ loc.flat_master \in {NoFrame, disk[date].MASTERFLAT}
        /\ loc.mask \in {NoFrame, disk[date].MASK}

\* C34: nights are isolated: a step of main changes no file of a date other
\* than the one being processed, and a step taken while a night is processed
\* starts with the plan the night's own files give and with master frames
\* that are files of its own output directory or absent, whatever nights
\* were processed before it in the run
C34_NightIsolation ==
    [][/\ \A d \in Dates :
            disk'[d] # disk[d] => pc # "idle" /\ di \in 1..Len(dates) /\ d = dates[di]
       /\ OwnPlanAndMasters]_vars

\* C34, witness: the second night of a run is being processed without a
\* master bias, flat and mask; the first night was processed in the same run
\* and built its own
C34_Witness ==
    /\ pc = "sci" /\ di = 2
    /\ status[dates[1]] = "processed"
    /\ {"MASTERBIAS", "MASTERFLAT", "MASK"} \subseteq touched[dates[1]].masters
    /\ touched[dates[2]].masters = {"MASTERDARK"}
    /\ loc.science_master_bias = NoFrame /\ loc.flat_master = NoFrame /\ loc.mask = NoFrame


\* C35: a call of combine_darks that fails on inconsistent exposure times
\* leaves every file as it was: no master dark is created or overwritten in
\* the directory of the darks or in the output directory of the night
C35_FailedCombineWritesNothing ==
    [][exit # "ValueError" /\ exit' = "ValueError" => disk' = disk]_vars

\* C35, witness: the master dark of the flats was built and cached, then
\* combining the science darks failed; there is no science master dark
C35_Witness ==
    /\ exit = "ValueError"
    /\ \E d \in Dates :
         /\ status[d] = "failed"
         /\ InconsistentExposure(ScienceDarkFiles(night[d]))
         /\ Exists(disk[d].flatMASTERDARK) /\ Exists(disk[d].MASTERDARK_FLAT)
         /\ ~Exists(disk[d].sciMASTERDARK) /\ ~Exists(disk[d].MASTERDARK)


\* the flat directory of night n has no darks, and some flat frame of it has
\* the exposure time of a dark of the science directory
FlatMatchesScienceDark(n) ==
    /\ n.flatDir /\ FlatDarkFiles(n) = <<>>
    /\ ExposureTimes(FlatFiles(n)) \cap ExposureTimes(ScienceDarkFiles(n)) # {}

\* the same with the match among the first FlatSample flat files
SampledFlatMatchesScienceDark(n) ==
    /\ n.flatDir /\ FlatDarkFiles(n) = <<>>
    /\ ExposureTimes(Take(FlatFiles(n), FlatSample))
            \cap ExposureTimes(ScienceDarkFiles(n)) # {}

\* C36: whenever the flat directory has no darks and the exposure time of any
\* flat frame equals that of some dark of the science directory, the science
\* darks are taken for the flats, however many flat frames there are and in
\* whatever order
C36_AnyMatchingFlatSubstitutes ==
    InNight /\ FlatMatchesScienceDark(night[date]) =>
        /\ loc.flat_dark_files = ScienceDarkFiles(night[date])
        /\ loc.shared_dark_files

\* the science darks are taken for the flats when one of the first FlatSample
\* flat frames has the exposure time of a science dark
C36_SampledMatchSubstitutes ==
    InNight /\ SampledFlatMatchesScienceDark(night[date]) =>
        /\ loc.flat_dark_files = ScienceDarkFiles(night[date])
        /\ loc.shared_dark_files

\* a night with more than FlatSample flats whose matching flat is among the
\* first FlatSample has its flats corrected with the science darks
C36_SampledMatch ==
    /\ pc = "sci"
    /\ Len(FlatFiles(night[date])) > FlatSample
    /\ ExposureTimes(ScienceDarkFiles(night[date])) = {90}
    /\ SampledFlatMatchesScienceDark(night[date])
    /\ loc.flat_master_dark = loc.science_master_dark /\ Exists(loc.flat_master)

\* a night whose only matching flat comes after the first FlatSample is left
\* without darks for its flats
C36_MatchBeyondSample ==
    /\ InNight
    /\ FlatMatchesScienceDark(night[date])
    /\ ~SampledFlatMatchesScienceDark(night[date])
    /\ loc.flat_dark_files = <<>> /\ ~loc.shared_dark_files

====
